---- MODULE Spec2Model ----
(***************************************************************************)
(* Verification model of the reactive domain runtime described by the      *)
(* Manifesto specification: snapshots, expression evaluation, dependency   *)
(* graph, propagation, effect execution, async debouncing, runtime facade. *)
(*                                                                         *)
(* Numbers are fixed-point with one decimal digit: the record field n of a *)
(* number holds ten times the number (100 is n = 1000, 0.1 is n = 1).      *)
(* A SemanticPath is a sequence of segments, namespace first:              *)
(* "data.price" is <<"data", "price">>.                                    *)
(***************************************************************************)
EXTENDS Integers, Sequences, FiniteSets, TLC

\* ------------------------------------------------------------------ bounds
MaxClock == 2          \* wall-clock readings range over 0..MaxClock
MaxChain == 3          \* longest snapshot lineage S0 -> ... -> Sn explored
MaxVersion == 18       \* runtime operations stop once the version reaches this
MaxTime == 2           \* the runtime's clock ranges over 0..MaxTime

Scale == 10

\* ------------------------------------------------------------------ values
\* JSON values and the two non-values of the host language (undefined, NaN).
\* Every value is a record [k, n, s, o]: kind, number, string, object fields.
Undef == [k |-> "undefined", n |-> 0, s |-> "", o |-> <<>>]
Null == [k |-> "null", n |-> 0, s |-> "", o |-> <<>>]
NaN == [k |-> "nan", n |-> 0, s |-> "", o |-> <<>>]
Fix(x) == [k |-> "num", n |-> x, s |-> "", o |-> <<>>]
Num(x) == Fix(x * Scale)
Bool(b) == [k |-> "bool", n |-> IF b THEN 1 ELSE 0, s |-> "", o |-> <<>>]
Str(t) == [k |-> "str", n |-> 0, s |-> t, o |-> <<>>]
\* A mapping (JSON object): o is a function from keys to values.
Obj(f) == [k |-> "obj", n |-> 0, s |-> "", o |-> f]
EmptyObj == Obj(<<>>)
\* A list (JSON array): o is the sequence of its elements.
Arr(values) == [k |-> "arr", n |-> 0, s |-> "", o |-> values]
\* A thrown EvaluationError / Error, carried as a value with its message.
Thrown(msg) == [k |-> "throw", n |-> 0, s |-> msg, o |-> <<>>]
IsThrown(v) == v.k = "throw"

\* Boolean(value) of the host language.
Truthy(v) ==
  CASE v.k = "bool" -> v.n = 1
    [] v.k = "num" -> v.n # 0
    [] v.k = "str" -> v.s # ""
    [] v.k \in {"obj", "arr", "inf"} -> TRUE
    [] OTHER -> FALSE

\* ToNumber of the host language, restricted to the value kinds modelled.
ToNumber(v) ==
  CASE v.k = "num" -> v
    [] v.k = "bool" -> Fix(v.n * Scale)
    [] v.k = "null" -> Fix(0)
    [] OTHER -> NaN

\* a === b on primitives: same kind and same value; NaN is not equal to itself.
StrictEqual(a, b) == a.k # "nan" /\ a = b

\* Structural (deep) equality of two values; on primitives it is identity
\* of kind and content.
DeepEqual(a, b) == a = b

\* --------------------------------------------------------------- snapshots
\* CreateSnapshot: derived and validity empty, version 0, timestamp now.
CreateSnapshot(initialData, initialState, now) ==
  [data |-> initialData, state |-> initialState, derived |-> <<>>,
   validity |-> <<>>, timestamp |-> now, version |-> 0]

\* An index segment ("0", "1", ...) and the position it denotes in a
\* sequence that starts at 1.
ArrayIndex == ("0" :> 1) @@ ("1" :> 2) @@ ("2" :> 3)
IsIndex(segment) == segment \in DOMAIN ArrayIndex

RECURSIVE TraverseObject(_, _)
TraverseObject(obj, segments) ==
  IF segments = <<>> THEN obj
  ELSE IF obj.k \in {"null", "undefined"} THEN Undef
  ELSE IF obj.k = "obj" /\ Head(segments) \in DOMAIN obj.o
       THEN TraverseObject(obj.o[Head(segments)], Tail(segments))
  ELSE IF /\ obj.k = "arr" /\ IsIndex(Head(segments))
          /\ ArrayIndex[Head(segments)] <= Len(obj.o)
       THEN TraverseObject(obj.o[ArrayIndex[Head(segments)]], Tail(segments))
  ELSE IF Tail(segments) = <<>> THEN Undef
  ELSE TraverseObject(Undef, Tail(segments))

\* Namespace routing, then traversal; derived is a flat mapping keyed by the
\* joined segments.
GetValueByPath(snapshot, path) ==
  LET namespace == Head(path)
      segments == Tail(path)
  IN CASE namespace = "data" -> TraverseObject(snapshot.data, segments)
       [] namespace = "state" -> TraverseObject(snapshot.state, segments)
       [] namespace = "derived" ->
            IF segments \in DOMAIN snapshot.derived
            THEN snapshot.derived[segments] ELSE Undef
       [] OTHER -> Undef

\* f with key mapped to v (the key is added when missing).
Put(f, key, v) == (key :> v) @@ f

\* Two statements in sequence: the first one is carried out, then the rest
\* runs on its outcome.
AndThen(first, Rest(_)) ==
  CHOOSE out \in {Rest(done) : done \in {first}} : TRUE

\* SetNestedValue: copy along the path, create missing intermediate
\* mappings, set the last part.  A property written on a primitive is lost;
\* an element written past the end of an array leaves holes, which read
\* as undefined.
PutElement(elements, i, v) ==
  [j \in 1..(IF i > Len(elements) THEN i ELSE Len(elements)) |->
     IF j = i THEN v ELSE IF j <= Len(elements) THEN elements[j] ELSE Undef]

RECURSIVE SetNestedValue(_, _, _)
SetNestedValue(obj, parts, value) ==
  IF parts = <<>> THEN value
  ELSE IF obj.k = "arr" /\ IsIndex(Head(parts)) THEN
     Arr(PutElement(
           obj.o, ArrayIndex[Head(parts)],
           SetNestedValue(
             IF ArrayIndex[Head(parts)] <= Len(obj.o)
                  /\ obj.o[ArrayIndex[Head(parts)]].k # "undefined"
             THEN obj.o[ArrayIndex[Head(parts)]] ELSE EmptyObj,
             Tail(parts), value)))
  ELSE IF obj.k # "obj" THEN obj
  ELSE LET part == Head(parts)
           child == IF part \in DOMAIN obj.o THEN obj.o[part] ELSE EmptyObj
       IN Obj(Put(obj.o, part, SetNestedValue(child, Tail(parts), value)))

\* SetValueByPath with the version counter left as it was.
SetValueByPath_KeepVersion(snapshot, path, value, now) ==
  LET namespace == Head(path)
      segments == Tail(path)
  IN CASE namespace = "data" ->
            [snapshot EXCEPT !.data = SetNestedValue(@, segments, value),
                             !.timestamp = now]
       [] namespace = "state" ->
            [snapshot EXCEPT !.state = SetNestedValue(@, segments, value),
                             !.timestamp = now]
       [] namespace = "derived" ->
            [snapshot EXCEPT !.derived = Put(@, segments, value),
                             !.timestamp = now]
       [] OTHER -> snapshot

SetValueByPath(snapshot, path, value, now) ==
  LET namespace == Head(path)
      segments == Tail(path)
      written ==
        CASE namespace = "data" ->
               [snapshot EXCEPT !.data = SetNestedValue(@, segments, value)]
          [] namespace = "state" ->
               [snapshot EXCEPT !.state = SetNestedValue(@, segments, value)]
          [] namespace = "derived" ->
               [snapshot EXCEPT !.derived = Put(@, segments, value)]
          [] OTHER -> snapshot
  IN [written EXCEPT !.version = snapshot.version + 1, !.timestamp = now]

\* ------------------------------------------------------------- expressions
\* An expression is a record [op, path, lit, args]: a literal (op "lit"),
\* ['get', path], or [op, ...args].
Lit(v) == [op |-> "lit", path |-> <<>>, lit |-> v, args |-> <<>>]
Get(p) == [op |-> "get", path |-> p, lit |-> Undef, args |-> <<>>]
Op1(o, a) == [op |-> o, path |-> <<>>, lit |-> Undef, args |-> <<a>>]
Op2(o, a, b) == [op |-> o, path |-> <<>>, lit |-> Undef, args |-> <<a, b>>]
NowExpr == [op |-> "now", path |-> <<>>, lit |-> Undef, args |-> <<>>]
OpN(o, args) == [op |-> o, path |-> <<>>, lit |-> Undef, args |-> args]
\* A CaseClause / MatchClause is the two-element array [first, result]; it
\* is kept as a node of its own because it is an array without an operator.
Clause(first, result) == OpN("clause", <<first, result>>)
\* ['case', ...clauses, default] and ['match', value, ...clauses, default]
CaseExpr(clauses, default) == OpN("case", Append(clauses, default))
MatchExpr(value, clauses, default) ==
  OpN("match", <<value>> \o Append(clauses, default))

\* ------------------------------------------------------ evaluation context
\* A context is the snapshot its get closes over, plus (for propagation)
\* the changes mapping that get consults first.
CreateEvaluationContext(snapshot) == [snap |-> snapshot, changes |-> <<>>]

CreatePropagationContext(snapshot, changes) ==
  [snap |-> snapshot, changes |-> changes]

ContextGet(context, path) ==
  IF path \in DOMAIN context.changes
  THEN context.changes[path]
  ELSE GetValueByPath(context.snap, path)

\* --------------------------------------------------------------- evaluator
Inf == [k |-> "inf", n |-> 1, s |-> "", o |-> <<>>]

\* The host's binary arithmetic on two values, after coercion to numbers.
Arith(o, x, y) ==
  LET a == IF x.k = "inf" THEN x ELSE ToNumber(x)
      b == IF y.k = "inf" THEN y ELSE ToNumber(y)
  IN IF a.k = "nan" \/ b.k = "nan" THEN NaN
     ELSE IF o = "/" THEN
            (IF a.k = "inf" THEN (IF b.k = "inf" THEN NaN ELSE Inf)
             ELSE IF b.k = "inf" THEN Fix(0)
             ELSE IF b.n = 0 THEN (IF a.n = 0 THEN NaN ELSE Inf)
             ELSE Fix((a.n * Scale) \div b.n))
     ELSE IF o = "%" THEN
            (IF a.k = "inf" THEN NaN
             ELSE IF b.k = "inf" THEN a
             ELSE IF b.n = 0 THEN NaN
             ELSE Fix(a.n % b.n))
     ELSE IF a.k = "inf" \/ b.k = "inf" THEN
            (IF o = "-" /\ a.k = "inf" /\ b.k = "inf" THEN NaN
             ELSE IF o = "*" /\ (a.n = 0 \/ b.n = 0) THEN NaN
             ELSE Inf)
     ELSE CASE o = "+" -> Fix(a.n + b.n)
            [] o = "-" -> Fix(a.n - b.n)
            [] o = "*" -> Fix((a.n * b.n) \div Scale)

\* The host's relational operators on two values.
Compare(o, x, y) ==
  LET a == ToNumber(x)
      b == ToNumber(y)
  IN IF a.k = "nan" \/ b.k = "nan" THEN Bool(FALSE)
     ELSE CASE o = ">" -> Bool(a.n > b.n)
            [] o = ">=" -> Bool(a.n >= b.n)
            [] o = "<" -> Bool(a.n < b.n)
            [] o = "<=" -> Bool(a.n <= b.n)

ArithOps == {"+", "-", "*", "/", "%"}
CompareOps == {">", ">=", "<", "<="}

\* All over the values of its arguments: true if all of them are truthy; an
\* error thrown by an argument is thrown on.
AllOf(values) ==
  IF \E i \in DOMAIN values : IsThrown(values[i])
  THEN values[CHOOSE i \in DOMAIN values :
                /\ IsThrown(values[i])
                /\ \A j \in 1..(i - 1) : ~IsThrown(values[j])]
  ELSE Bool(\A i \in DOMAIN values : Truthy(values[i]))

\* Evaluate(expr, context); now is the wall-clock reading at the time of the
\* call.  A thrown EvaluationError is returned as a Thrown value.
RECURSIVE Evaluate(_, _, _)
Evaluate(expr, context, now) ==
  LET arg(i) == Evaluate(expr.args[i], context, now)
  IN
  IF expr.op = "lit" THEN
     (IF expr.lit.k \in {"null", "str", "num", "bool"} THEN expr.lit
      ELSE Thrown("Invalid expression"))
  ELSE IF expr.op = "get" THEN ContextGet(context, expr.path)
  ELSE IF expr.op = "now" THEN Fix(now)
  ELSE IF expr.op = "!" THEN
     (IF IsThrown(arg(1)) THEN arg(1) ELSE Bool(~Truthy(arg(1))))
  ELSE IF expr.op = "all" THEN
     AllOf([i \in DOMAIN expr.args |-> arg(i)])
  ELSE IF expr.op \in {"==", "!="} \cup ArithOps \cup CompareOps THEN
     (IF IsThrown(arg(1)) THEN arg(1)
      ELSE IF IsThrown(arg(2)) THEN arg(2)
      ELSE IF expr.op = "==" THEN Bool(StrictEqual(arg(1), arg(2)))
      ELSE IF expr.op = "!=" THEN Bool(~StrictEqual(arg(1), arg(2)))
      ELSE IF expr.op \in ArithOps THEN Arith(expr.op, arg(1), arg(2))
      ELSE Compare(expr.op, arg(1), arg(2)))
  ELSE Thrown("Unknown operator")

\* ------------------------------------------------------ dependency graph
IsBuiltInPath(path) == Head(path) \in {"$", "$index", "$acc"}

\* ExtractPaths destructures every array as [op, ...args] and unions over
\* args only.  For a clause the first element (the clause's condition or
\* pattern) is what lands in op: it is not walked, and when it is the
\* string 'get' next to a string result the clause is read as a get.
IsGetShaped(clause) ==
  /\ clause.args[1] = Lit(Str("get"))
  /\ clause.args[2].op = "lit"
  /\ clause.args[2].lit.k = "str"

RECURSIVE ExtractPaths(_)
ExtractPaths(expr) ==
  IF expr.op = "lit" THEN {}
  ELSE IF expr.op = "get" THEN
     (IF IsBuiltInPath(expr.path) THEN {} ELSE {expr.path})
  ELSE IF expr.op = "clause" THEN
     (IF IsGetShaped(expr) /\ ~IsBuiltInPath(<<expr.args[2].lit.s>>)
      THEN {<<expr.args[2].lit.s>>}
      ELSE ExtractPaths(expr.args[2]))
  ELSE UNION {ExtractPaths(expr.args[i]) : i \in DOMAIN expr.args}

SeqToSet(q) == {q[i] : i \in DOMAIN q}

\* map.get(key) or the empty set
GetOrEmpty(map, key) == IF key \in DOMAIN map THEN map[key] ELSE {}

EmptyGraph ==
  [order |-> <<>>, kind |-> <<>>, defn |-> <<>>,
   dependencies |-> <<>>, dependents |-> <<>>, topologicalOrder |-> <<>>]

\* nodes.set(path, node): a Map keeps the position of a key already present.
AddNode(g, path, kind, defn) ==
  [g EXCEPT !.order = IF path \in DOMAIN g.kind THEN @ ELSE Append(@, path),
            !.kind = Put(@, path, kind),
            !.defn = Put(@, path, defn)]

\* For each dep in deps: add path to dependents[dep].
AddDependents(dependents, deps, path) ==
  [d \in (DOMAIN dependents) \cup deps |->
     IF d \in deps THEN GetOrEmpty(dependents, d) \cup {path}
     ELSE dependents[d]]

AddSourceNode(g, path, defn) ==
  LET g1 == AddNode(g, path, "source", defn)
  IN [g1 EXCEPT !.dependencies = Put(@, path, {}),
                !.dependents = IF path \in DOMAIN @ THEN @ ELSE Put(@, path, {})]

AddDerivedNode(g, path, defn) ==
  LET g1 == AddNode(g, path, "derived", defn)
      deps == SeqToSet(defn.deps)
                \cup {d \in ExtractPaths(defn.expr) : ~IsBuiltInPath(d)}
  IN [g1 EXCEPT !.dependencies = Put(@, path, deps),
                !.dependents = AddDependents(@, deps, path)]

RECURSIVE RegisterAsyncResultPaths(_, _, _)
RegisterAsyncResultPaths(g, asyncPath, statePaths) ==
  IF statePaths = <<>> THEN g
  ELSE LET statePath == Head(statePaths)
           g1 == IF statePath \in DOMAIN g.kind THEN g
                 ELSE [AddNode(g, statePath, "source",
                               [semantic |-> "async-state"])
                         EXCEPT !.dependencies = Put(@, statePath, {})]
           g2 == [g1 EXCEPT
                    !.dependents = AddDependents(@, {statePath}, asyncPath),
                    !.dependencies =
                       Put(@, asyncPath, @[asyncPath] \cup {statePath})]
       IN RegisterAsyncResultPaths(g2, asyncPath, Tail(statePaths))

AddAsyncNode(g, path, defn) ==
  LET g1 == AddNode(g, path, "async", defn)
      deps == SeqToSet(defn.deps)
                \cup (IF defn.hasCondition THEN ExtractPaths(defn.condition)
                      ELSE {})
      g2 == [g1 EXCEPT !.dependencies = Put(@, path, deps),
                       !.dependents = AddDependents(@, deps, path)]
  IN RegisterAsyncResultPaths(
       g2, path, <<defn.resultPath, defn.loadingPath, defn.errorPath>>)

\* Kahn's algorithm.  order is the insertion order of the nodes Map (and of
\* the dependencies Map, whose keys are inserted together with the nodes).
InitialInDegree_AllDeps(order, kind, dependencies) ==
  [p \in SeqToSet(order) |-> Cardinality(GetOrEmpty(dependencies, p))]
InitialInDegree(order, kind, dependencies) ==
  [p \in SeqToSet(order) |->
     Cardinality({d \in GetOrEmpty(dependencies, p) : d \in DOMAIN kind})]

\* Step 6c for one dequeued node: walk the dependencies Map in order,
\* decrement the in-degree of every path that depends on current and
\* enqueue the ones that reach zero.  st = [queue, inDegree].
RECURSIVE Relax(_, _, _, _)
Relax(st, rest, current, dependencies) ==
  IF rest = <<>> THEN st
  ELSE LET path == Head(rest)
           hit == current \in GetOrEmpty(dependencies, path)
           deg == IF hit THEN st.inDegree[path] - 1 ELSE st.inDegree[path]
           st1 == [queue |-> IF hit /\ deg = 0 THEN Append(st.queue, path)
                             ELSE st.queue,
                   inDegree |-> [st.inDegree EXCEPT ![path] = deg]]
       IN Relax(st1, Tail(rest), current, dependencies)

RECURSIVE KahnLoop(_, _, _, _)
KahnLoop(queue, inDegree, result, g) ==
  IF queue = <<>> THEN result
  ELSE LET current == Head(queue)
           st == Relax([queue |-> Tail(queue), inDegree |-> inDegree],
                       g.order, current, g.dependencies)
       IN KahnLoop(st.queue, st.inDegree, Append(result, current), g)

TopologicalSort(g) ==
  LET inDegree == InitialInDegree(g.order, g.kind, g.dependencies)
      queue == SelectSeq(g.order, LAMBDA p : inDegree[p] = 0)
  IN KahnLoop(queue, inDegree, <<>>, g)

RECURSIVE AddSources(_, _)
AddSources(g, sources) ==
  IF sources = <<>> THEN g
  ELSE AddSources(AddSourceNode(g, Head(sources).path, Head(sources)),
                  Tail(sources))

RECURSIVE AddDeriveds(_, _)
AddDeriveds(g, deriveds) ==
  IF deriveds = <<>> THEN g
  ELSE AddDeriveds(AddDerivedNode(g, Head(deriveds).path, Head(deriveds)),
                   Tail(deriveds))

RECURSIVE AddAsyncs(_, _)
AddAsyncs(g, asyncs) ==
  IF asyncs = <<>> THEN g
  ELSE AddAsyncs(AddAsyncNode(g, Head(asyncs).path, Head(asyncs)),
                 Tail(asyncs))

\* BuildDependencyGraph returns the graph with whatever order the sort
\* produced.
BuildDependencyGraph(domain) ==
  LET g == AddAsyncs(AddDeriveds(AddSources(EmptyGraph, domain.sources),
                                 domain.derived),
                     domain.async)
  IN [g EXCEPT !.topologicalOrder = TopologicalSort(g)]

\* ----------------------------------------------------------------- effects
\* An effect is a record [tag, path, expr, arg, kids]:
\*   SetValue/SetState  path, expr (the value expression)
\*   ApiCall            expr (the endpoint, a literal or an expression)
\*   Navigate           expr (to)
\*   Delay              arg (ms)
\*   Sequence           kids (effects)
\*   Conditional        expr (condition), kids <<then>> or <<then, else>>
\*   Catch              kids <<try, catch>> or <<try, catch, finally>>
\*   EmitEvent          arg (channel), expr (payload literal)
Effect(tag, path, expr, arg, kids) ==
  [tag |-> tag, path |-> path, expr |-> expr, arg |-> arg, kids |-> kids]
SetValueEffect(path, value) == Effect("SetValue", path, value, "", <<>>)
SetStateEffect(path, value) == Effect("SetState", path, value, "", <<>>)
ApiCallEffect(endpoint) == Effect("ApiCall", <<>>, endpoint, "", <<>>)
NavigateEffect(to) == Effect("Navigate", <<>>, to, "", <<>>)
DelayEffect(ms) == Effect("Delay", <<>>, Lit(Null), ms, <<>>)
SequenceEffect(effects) == Effect("Sequence", <<>>, Lit(Null), "", effects)
ConditionalEffect(condition, branches) ==
  Effect("Conditional", <<>>, condition, "", branches)
CatchEffect(branches) == Effect("Catch", <<>>, Lit(Null), "", branches)
EmitEventEffect(channel, payload) ==
  Effect("EmitEvent", <<>>, Lit(payload), channel, <<>>)

\* Result<value, EffectError>, plus the outcome "throw": an exception that
\* leaves RunEffect instead of a returned result.
Ok(v) == [t |-> "ok", v |-> v, code |-> ""]
ErrResult(code, cause) == [t |-> "err", v |-> cause, code |-> code]
ThrowResult(cause) == [t |-> "throw", v |-> cause, code |-> ""]

\* One call of a handler method.
Call(method, path, v) == [m |-> method, path |-> path, v |-> v]

\* EvaluateIfExpression: a value that is an operator array is evaluated,
\* anything else is returned as it is.
EvaluateIfExpression(value, context, now) ==
  IF value.op = "lit" THEN value.lit ELSE Evaluate(value, context, now)

\* The injected handler is described by config.handler:
\*   rejects  the endpoints whose apiCall promise rejects
\*   throwing the synchronous methods that throw when called
\* RunEffect returns [result, calls]: the result and the handler calls made,
\* in order.
RECURSIVE RunEffect(_, _)

\* Sequence without the early return: every child runs, the last result wins.
RECURSIVE RunAllLoop(_, _, _)
RunAllLoop(st, rest, config) ==
  IF rest = <<>> THEN st
  ELSE LET r == RunEffect(Head(rest), config)
       IN RunAllLoop([result |-> r.result, calls |-> st.calls \o r.calls],
                     Tail(rest), config)
RunSequence_RunAll(effect, config) ==
  RunAllLoop([result |-> Ok(Undef), calls |-> <<>>], effect.kids, config)

\* Sequence: run each child in array order, return at the first result that
\* is an Err (an exception thrown by a child leaves the loop as well).
RECURSIVE SequenceLoop(_, _, _)
SequenceLoop(st, rest, config) ==
  IF rest = <<>> \/ st.result.t # "ok" THEN st
  ELSE LET r == RunEffect(Head(rest), config)
       IN SequenceLoop([result |-> r.result, calls |-> st.calls \o r.calls],
                       Tail(rest), config)
RunSequence(effect, config) ==
  SequenceLoop([result |-> Ok(Undef), calls |-> <<>>], effect.kids, config)

\* Catch.  The Try block runs try, then finally, and returns try's result;
\* the Catch block is entered by an exception thrown inside the Try block
\* and runs catch, then finally, and returns catch's result.
RunCatch(effect, config) ==
  LET hasFinally == Len(effect.kids) = 3
      \* run finally after a branch outcome b: an exception thrown by
      \* finally replaces the outcome
      WithFinally(b) ==
        IF ~hasFinally THEN b
        ELSE LET f == RunEffect(effect.kids[3], config)
             IN [result |-> IF f.result.t = "throw" THEN f.result
                            ELSE b.result,
                 calls |-> b.calls \o f.calls]
      try == RunEffect(effect.kids[1], config)
      tryBlock == IF try.result.t = "throw" THEN try ELSE WithFinally(try)
  IN IF tryBlock.result.t # "throw" THEN tryBlock
     ELSE LET c == RunEffect(effect.kids[2], config)
              pre == [result |-> c.result,
                      calls |-> tryBlock.calls \o c.calls]
          IN IF c.result.t = "throw" THEN pre ELSE WithFinally(pre)

RunEffect(effect, config) ==
  LET handler == config.handler
      context == config.context
      now == config.now
      \* a synchronous handler method called with (path, v)
      Delegate(method, path, v) ==
        IF method \in handler.throwing
        THEN [result |-> ThrowResult(Str(method)),
              calls |-> <<Call(method, path, v)>>]
        ELSE [result |-> Ok(Undef), calls |-> <<Call(method, path, v)>>]
  IN
  CASE effect.tag \in {"SetValue", "SetState"} ->
         LET value == Evaluate(effect.expr, context, now)
         IN IF IsThrown(value)
            THEN [result |-> ThrowResult(value), calls |-> <<>>]
            ELSE Delegate(IF effect.tag = "SetValue" THEN "setValue"
                          ELSE "setState", effect.path, value)
    [] effect.tag = "ApiCall" ->
         LET endpoint == EvaluateIfExpression(effect.expr, context, now)
         IN IF IsThrown(endpoint)
            THEN [result |-> ThrowResult(endpoint), calls |-> <<>>]
            ELSE [result |-> IF endpoint \in handler.rejects
                             THEN ErrResult("API_CALL_FAILED", endpoint)
                             ELSE Ok(endpoint),
                  calls |-> <<Call("apiCall", <<>>, endpoint)>>]
    [] effect.tag = "Navigate" ->
         LET to == EvaluateIfExpression(effect.expr, context, now)
         IN IF IsThrown(to)
            THEN [result |-> ThrowResult(to), calls |-> <<>>]
            ELSE Delegate("navigate", <<>>, to)
    [] effect.tag = "Delay" -> [result |-> Ok(Undef), calls |-> <<>>]
    [] effect.tag = "Sequence" -> RunSequence(effect, config)
    [] effect.tag = "Conditional" ->
         LET condition == Evaluate(effect.expr, context, now)
         IN IF IsThrown(condition)
            THEN [result |-> ThrowResult(condition), calls |-> <<>>]
            ELSE IF Truthy(condition) THEN RunEffect(effect.kids[1], config)
            ELSE IF Len(effect.kids) = 2
                 THEN RunEffect(effect.kids[2], config)
            ELSE [result |-> Ok(Undef), calls |-> <<>>]
    [] effect.tag = "Catch" -> RunCatch(effect, config)
    [] effect.tag = "EmitEvent" ->
         Delegate("emitEvent", <<effect.arg>>, effect.expr.lit)
    [] OTHER ->
         [result |-> ErrResult("UNKNOWN_EFFECT", Str(effect.tag)),
          calls |-> <<>>]

\* ------------------------------------------------------ graph operations
\* GetAllDependents: every path reached from path over the dependents
\* edges (depth-first with a visited set; the result is a set).
RECURSIVE TraverseDependents(_, _, _)
TraverseDependents(g, frontier, result) ==
  LET next == UNION {GetOrEmpty(g.dependents, c) : c \in frontier}
  IN IF next \subseteq result THEN result
     ELSE TraverseDependents(g, next \ result, result \cup next)
GetAllDependents(g, path) == TraverseDependents(g, {path}, {})

\* GetAffectedOrder ignoring the dependents: only the changed paths.
GetAffectedOrder_ChangedOnly(g, changedPaths) ==
  SelectSeq(g.topologicalOrder, LAMBDA p : p \in SeqToSet(changedPaths))

GetAffectedOrder(g, changedPaths) ==
  LET affected == SeqToSet(changedPaths)
        \cup UNION {GetAllDependents(g, changedPaths[i]) :
                      i \in DOMAIN changedPaths}
  IN SelectSeq(g.topologicalOrder, LAMBDA p : p \in affected)

\* ------------------------------------------------------------ propagation
\* The changes Map: keys in insertion order, and the mapping itself.
NoChanges == [keys |-> <<>>, val |-> <<>>]
SetChange(changes, path, value) ==
  [keys |-> IF path \in DOMAIN changes.val THEN changes.keys
            ELSE Append(changes.keys, path),
   val |-> Put(changes.val, path, value)]

\* Whether an async node should trigger: its condition, when it has one,
\* evaluated in the propagation context.
EvaluateAsyncCondition(defn, context, now) ==
  IF defn.hasCondition THEN Truthy(Evaluate(defn.condition, context, now))
  ELSE TRUE

\* Step 6.c.ii for a derived node whose expression evaluated to value.
RecordDerived(res, path, value, oldValue) ==
  IF IsThrown(value)
  THEN [res EXCEPT !.errors = Append(@, [path |-> path, error |-> value])]
  ELSE IF ~DeepEqual(value, oldValue)
  THEN [res EXCEPT !.changes = SetChange(@, path, value)]
  ELSE res

\* Step 6 for one path of the affected order; res = [changes,
\* pendingEffects, errors] and the context reads the changes made so far.
PropagateStep(res, path, context, g, changedPaths, snapshot, now) ==
  IF path \notin DOMAIN g.kind THEN res
  ELSE IF g.kind[path] = "source" THEN
    (IF path \in SeqToSet(changedPaths)
     THEN [res EXCEPT !.changes =
             SetChange(@, path, GetValueByPath(snapshot, path))]
     ELSE res)
  ELSE IF g.kind[path] = "derived" THEN
    RecordDerived(res, path, Evaluate(g.defn[path].expr, context, now),
                  GetValueByPath(snapshot, path))
  ELSE \* async
    (IF EvaluateAsyncCondition(g.defn[path], context, now)
     THEN [res EXCEPT
             !.changes = SetChange(@, g.defn[path].loadingPath, Bool(TRUE)),
             !.pendingEffects =
                Append(@, [path |-> path, effect |-> g.defn[path].effect])]
     ELSE res)

RECURSIVE PropagateWalk(_, _, _, _, _, _)

\* A walk that stops at the first recorded error.
PropagateWalk_AbortOnError(res, rest, g, changedPaths, snapshot, now) ==
  IF rest = <<>> \/ res.errors # <<>> THEN res
  ELSE AndThen(
         PropagateStep(res, Head(rest),
                       CreatePropagationContext(snapshot, res.changes.val),
                       g, changedPaths, snapshot, now),
         LAMBDA step :
           PropagateWalk(step, Tail(rest), g, changedPaths, snapshot, now))

\* The walk over the affected order.
PropagateWalk(res, rest, g, changedPaths, snapshot, now) ==
  IF rest = <<>> THEN res
  ELSE AndThen(
         PropagateStep(res, Head(rest),
                       CreatePropagationContext(snapshot, res.changes.val),
                       g, changedPaths, snapshot, now),
         LAMBDA step :
           PropagateWalk(step, Tail(rest), g, changedPaths, snapshot, now))

Propagate(g, changedPaths, snapshot, now) ==
  PropagateWalk([changes |-> NoChanges, pendingEffects |-> <<>>,
                 errors |-> <<>>],
                GetAffectedOrder(g, changedPaths), g, changedPaths,
                snapshot, now)

\* CollectChangedPaths: the direct changes and the keys of changes.
CollectChangedPaths(directChanges, propagationResult) ==
  SeqToSet(directChanges) \cup SeqToSet(propagationResult.changes.keys)
\* Array.from(paths): the same paths in insertion order.
ChangedPathsArray(directChanges, propagationResult) ==
  directChanges
    \o SelectSeq(propagationResult.changes.keys,
                 LAMBDA p : p \notin SeqToSet(directChanges))

\* Apply the changes to the snapshot, one SetValueByPath per entry.
RECURSIVE ApplyChanges(_, _, _, _)
ApplyChanges(snapshot, keys, val, now) ==
  IF keys = <<>> THEN snapshot
  ELSE AndThen(SetValueByPath(snapshot, Head(keys), val[Head(keys)], now),
               LAMBDA written : ApplyChanges(written, Tail(keys), val, now))

\* ------------------------------------------------------------- validation
Issue(code, path) == [code |-> code, path |-> path, severity |-> "error"]

\* Accepts every path, the derived ones included.
ValidatePathWrite_AllowAll(path) == <<>>

\* Derived paths are read-only.  A path is kept as its segments, the
\* namespace first, so 'starts with "derived."' is a first segment "derived"
\* followed by at least one more.
ValidatePathWrite(path) ==
  IF Head(path) = "derived" /\ Len(path) >= 2
  THEN <<Issue("READONLY_VIOLATION", path)>>
  ELSE <<>>

GetNamespaceRoot(snapshot, namespace) ==
  CASE namespace = "data" -> snapshot.data
    [] namespace = "state" -> snapshot.state
    [] namespace = "derived" ->
         Obj([key \in {d[1] : d \in {e \in DOMAIN snapshot.derived :
                                        Len(e) = 1}}
                |-> snapshot.derived[<<key>>]])
    [] OTHER -> Undef

\* Step 3 of ValidatePathBounds (the model has no arrays, so branch a is
\* never taken): walk the segments, fail at a segment read from a value
\* that is not an object.
RECURSIVE WalkBounds(_, _, _)
WalkBounds(current, segments, path) ==
  IF segments = <<>> THEN <<>>
  ELSE IF current.k = "obj"
  THEN WalkBounds(IF Head(segments) \in DOMAIN current.o
                  THEN current.o[Head(segments)] ELSE Undef,
                  Tail(segments), path)
  ELSE <<Issue("PATH_NOT_FOUND", path)>>

ValidatePathBounds(snapshot, path) ==
  WalkBounds(GetNamespaceRoot(snapshot, Head(path)), Tail(path), path)

\* schema.safeParse for the schemas of the domains: z.number(),
\* z.number().min(m) and z.object(...).
ValidateValue(schema, value, path) ==
  IF schema.isObject
  THEN (IF value.k = "obj" THEN <<>> ELSE <<Issue("INVALID_TYPE", path)>>)
  ELSE IF value.k # "num" THEN <<Issue("INVALID_TYPE", path)>>
  ELSE IF schema.hasMin /\ value.n < schema.min * Scale
  THEN <<Issue("CONSTRAINT_VIOLATION", path)>>
  ELSE <<>>

RECURSIVE ValidateInvariants(_, _, _)
ValidateInvariants(snapshot, invariants, now) ==
  IF invariants = <<>> THEN <<>>
  ELSE LET invariant == Head(invariants)
           result == Evaluate(invariant.condition,
                              CreateEvaluationContext(snapshot), now)
       IN (IF result = Bool(TRUE) THEN <<>>
           ELSE <<Issue("INVARIANT_VIOLATION", invariant.path)>>)
          \o ValidateInvariants(snapshot, Tail(invariants), now)

GetSourceDefinition(domain, path) ==
  SelectSeq(domain.sources, LAMBDA d : d.path = path)

\* Step 11 of the pipeline: valid when no issue is an error.
ValidationResult(issues) ==
  [valid |-> \A i \in DOMAIN issues : issues[i].severity # "error",
   issues |-> issues]

\* Phase 3: the schema of the source definition of the path, if any.
ValidateSchema(sourceDef, value, path) ==
  IF sourceDef # <<>> THEN ValidateValue(sourceDef[1].schema, value, path)
  ELSE <<>>

\* The validation pipeline of a write; returns [valid, issues].
ValidateWriteOperation(snapshot, path, value, domain, now) ==
  IF ValidatePathWrite(path) # <<>>
  THEN ValidationResult(ValidatePathWrite(path))
  ELSE ValidationResult(
         ValidatePathBounds(snapshot, path)
           \o ValidateSchema(GetSourceDefinition(domain, path), value, path)
           \o ValidateInvariants(
                SetValueByPath(snapshot, path, value, now),
                domain.invariants, now))

\* ---------------------------------------------------------------- runtime
\* The state of a DomainRuntime is a record rt:
\*   current        the current snapshot
\*   timers         the live setTimeout timers [id, path, context, due]
\*   pendingTimers  AsyncDebounceManager.pendingTimers: path -> timer id
\*   inflight       effects awaited by HandleAsyncTrigger [id, path, result]
\*   nextTimer      number of timers created so far
\*   executions     number of HandleAsyncTrigger calls so far
\*   apiCalls       number of handler.apiCall calls so far
\*   notified       number of subscriber notifications so far
\*   lastChanged    changedPaths of the latest notification
\*   snapshotListeners, pathListeners, eventListeners
\*                  the collections of the SubscriptionManager
\*   gone           the listeners whose unsubscribe function has been called
\*   log            the listener invocations of the operation in progress
\*   effectCalls    the handler calls of the execute in progress
\*   disposed       whether dispose() has been called
\*   disposedWith   the timers and effects pending when it was called
\* The operators take env = [graph, handler, now, domain, behaviour]: the
\* dependency graph, the behaviour of the effect handler, the reading of
\* Date.now(), the domain, and what each listener does when it is called.

RECURSIVE InternalWrite(_, _, _, _)
RECURSIVE SetValue(_, _, _, _, _)

\* ----------------------------------------------------------- subscriptions
\* The listener collections keep insertion order: snapshotListeners is a
\* sequence of listeners, pathListeners and eventListeners are sequences
\* of [key, listeners] with a path, pattern or channel as key.
AddListener(listeners, listener) ==
  IF listener \in SeqToSet(listeners) THEN listeners
  ELSE Append(listeners, listener)
RemoveListener(listeners, listener) ==
  SelectSeq(listeners, LAMBDA l : l # listener)
HasKey(map, key) == \E i \in DOMAIN map : map[i].key = key
ListenersOf(map, key) ==
  IF HasKey(map, key)
  THEN map[CHOOSE i \in DOMAIN map : map[i].key = key].listeners
  ELSE <<>>
AddKeyed(map, key, listener) ==
  IF HasKey(map, key)
  THEN [i \in DOMAIN map |->
          IF map[i].key = key
          THEN [map[i] EXCEPT !.listeners = AddListener(@, listener)]
          ELSE map[i]]
  ELSE Append(map, [key |-> key, listeners |-> <<listener>>])
RemoveKeyed(map, key, listener) ==
  [i \in DOMAIN map |->
     IF map[i].key = key
     THEN [map[i] EXCEPT !.listeners = RemoveListener(@, listener)]
     ELSE map[i]]

\* subscribe, subscribePath, subscribeEvents: add the listener to its set.
Subscribe(rt, listener) ==
  [rt EXCEPT !.snapshotListeners = AddListener(@, listener)]
SubscribePath(rt, path, listener) ==
  [rt EXCEPT !.pathListeners = AddKeyed(@, path, listener)]
SubscribeEvents(rt, channel, listener) ==
  [rt EXCEPT !.eventListeners = AddKeyed(@, channel, listener)]
\* A subscription [kind, key, listener] names the unsubscribe function a
\* subscribe call returned; calling it removes the listener from its set.
Subscription(kind, key, listener) ==
  [kind |-> kind, key |-> key, listener |-> listener]
Unsubscribe(rt, sub) ==
  [rt EXCEPT
     !.snapshotListeners =
        IF sub.kind = "snapshot" THEN RemoveListener(@, sub.listener) ELSE @,
     !.pathListeners =
        IF sub.kind = "path" THEN RemoveKeyed(@, sub.key, sub.listener) ELSE @,
     !.eventListeners =
        IF sub.kind = "event" THEN RemoveKeyed(@, sub.key, sub.listener)
        ELSE @,
     !.gone = @ \cup {sub.listener}]

\* The set a "For each listener in ..." loop iterates.
CollectionOf(rt, collection) ==
  CASE collection.kind = "snapshot" -> rt.snapshotListeners
    [] collection.kind = "path" -> ListenersOf(rt.pathListeners, collection.key)
    [] OTHER -> ListenersOf(rt.eventListeners, collection.key)

\* Iteration over a copy of the set taken when the loop starts.
Remaining_Copy(listeners, atStart, visited) ==
  SelectSeq(atStart, LAMBDA l : l \notin visited)
\* The listeners a loop over a Set still has to visit: iteration is live,
\* a listener deleted before its turn is not visited.
Remaining(listeners, atStart, visited) ==
  SelectSeq(listeners, LAMBDA l : l \notin visited)

\* A pattern is a path whose last segment is "*" (direct children) or
\* "**" (all descendants).
IsWildcard(pattern) ==
  pattern # <<>> /\ pattern[Len(pattern)] \in {"*", "**"}
MatchesWildcard(path, pattern) ==
  /\ IsWildcard(pattern)
  /\ Len(path) >= Len(pattern)
  /\ SubSeq(path, 1, Len(pattern) - 1) = SubSeq(pattern, 1, Len(pattern) - 1)
  /\ pattern[Len(pattern)] = "*" => Len(path) = Len(pattern)

\* What a listener does when it is called (user code): nothing, or, when
\* its condition holds on the current snapshot, it calls an unsubscribe
\* function or runtime.set.
RunBehaviour(rt, env, b) ==
  IF b.do = "none"
     \/ ~Truthy(Evaluate(b.when, CreateEvaluationContext(rt.current), env.now))
  THEN rt
  ELSE IF b.do = "unsubscribe" THEN Unsubscribe(rt, b.sub)
  ELSE SetValue(rt, env, env.domain, b.path, b.value).rt

\* Call listener(...): the invocation is logged with what the listener is
\* given and what getSnapshot() returns at that moment, then the listener
\* runs.
CallListener(rt, env, call, listener) ==
  RunBehaviour(
    [rt EXCEPT !.log =
       Append(@, [kind |-> call.kind, key |-> call.key,
                  listener |-> listener, path |-> call.path,
                  value |-> call.value, version |-> call.version,
                  changed |-> call.changed,
                  isCurrent |-> call.version = rt.current.version,
                  unsubscribed |-> listener \in rt.gone])],
    env, env.behaviour[listener])

\* "For each listener in <collection>: Call listener(...)".
RECURSIVE NotifyListeners(_, _, _, _, _, _)
NotifyNext(rt, env, collection, call, atStart, visited, rest) ==
  IF rest = <<>> THEN rt
  ELSE AndThen(CallListener(rt, env, call, Head(rest)),
               LAMBDA called :
                 NotifyListeners(called, env, collection, call, atStart,
                                 visited \cup {Head(rest)}))
NotifyListeners(rt, env, collection, call, atStart, visited) ==
  NotifyNext(rt, env, collection, call, atStart, visited,
             Remaining(CollectionOf(rt, collection), atStart, visited))

SnapshotCall(snapshot, changedPaths) ==
  [kind |-> "snapshot", key |-> <<>>, path |-> <<>>, value |-> Undef,
   version |-> snapshot.version, changed |-> SeqToSet(changedPaths)]
PathCall(snapshot, key, path, changedPaths) ==
  [kind |-> "path", key |-> key, path |-> path,
   value |-> GetValueByPath(snapshot, path),
   version |-> snapshot.version, changed |-> SeqToSet(changedPaths)]
EventCall(rt, key, channel, payload) ==
  [kind |-> "event", key |-> key, path |-> channel, value |-> payload,
   version |-> rt.current.version, changed |-> {}]

\* Step 2 of NotifySnapshotChange: the listeners of each changed path.
RECURSIVE NotifyExactPaths(_, _, _, _, _)
NotifyExactPaths(rt, env, snapshot, changedPaths, rest) ==
  IF rest = <<>> THEN rt
  ELSE AndThen(
         NotifyListeners(rt, env, [kind |-> "path", key |-> Head(rest)],
                         PathCall(snapshot, Head(rest), Head(rest),
                                  changedPaths),
                         ListenersOf(rt.pathListeners, Head(rest)), {}),
         LAMBDA notified :
           NotifyExactPaths(notified, env, snapshot, changedPaths,
                            Tail(rest)))

\* Step 3: for each wildcard pattern, each changed path that matches it.
RECURSIVE NotifyPattern(_, _, _, _, _, _)
NotifyPattern(rt, env, snapshot, changedPaths, pattern, rest) ==
  IF rest = <<>> THEN rt
  ELSE AndThen(
         IF MatchesWildcard(Head(rest), pattern)
         THEN NotifyListeners(rt, env, [kind |-> "path", key |-> pattern],
                              PathCall(snapshot, pattern, Head(rest),
                                       changedPaths),
                              ListenersOf(rt.pathListeners, pattern), {})
         ELSE rt,
         LAMBDA notified :
           NotifyPattern(notified, env, snapshot, changedPaths, pattern,
                         Tail(rest)))
RECURSIVE NotifyWildcards(_, _, _, _, _)
NotifyWildcards(rt, env, snapshot, changedPaths, patterns) ==
  IF patterns = <<>> THEN rt
  ELSE AndThen(
         IF IsWildcard(Head(patterns))
         THEN NotifyPattern(rt, env, snapshot, changedPaths, Head(patterns),
                            changedPaths)
         ELSE rt,
         LAMBDA notified :
           NotifyWildcards(notified, env, snapshot, changedPaths,
                           Tail(patterns)))

NotifySnapshotChange(rt, env, snapshot, changedPaths) ==
  AndThen(
    NotifyListeners(rt, env, [kind |-> "snapshot", key |-> <<>>],
                    SnapshotCall(snapshot, changedPaths),
                    rt.snapshotListeners, {}),
    LAMBDA step1 :
      AndThen(
        NotifyExactPaths(step1, env, snapshot, changedPaths, changedPaths),
        LAMBDA step2 :
          NotifyWildcards(
            step2, env, snapshot, changedPaths,
            [i \in DOMAIN rt.pathListeners |-> rt.pathListeners[i].key])))

\* EmitEvent: the listeners of the channel, then those of '*'.
EmitEvent(rt, env, channel, payload) ==
  AndThen(
    NotifyListeners(rt, env, [kind |-> "event", key |-> channel],
                    EventCall(rt, channel, channel, payload),
                    ListenersOf(rt.eventListeners, channel), {}),
    LAMBDA emitted :
      NotifyListeners(emitted, env, [kind |-> "event", key |-> <<"*">>],
                      EventCall(rt, <<"*">>, channel, payload),
                      ListenersOf(rt.eventListeners, <<"*">>), {}))

\* A Result as the value stored at resultPath.
ResultValue(result) ==
  IF result.t = "ok"
  THEN Obj(("ok" :> Bool(TRUE)) @@ ("value" :> result.v))
  ELSE Obj(("ok" :> Bool(FALSE)) @@ ("error" :> Str(result.code)))

\* The effect of an async node has been started with outcome r: count the
\* execution and its API calls and keep the outcome in flight.
StartEffect(rt, asyncPath, r) ==
  [rt EXCEPT !.executions = @ + 1,
             !.apiCalls = @ + Len(SelectSeq(r.calls,
                                            LAMBDA c : c.m = "apiCall")),
             !.inflight = @ \cup {[id |-> rt.executions + 1,
                                   path |-> asyncPath,
                                   result |-> r.result]}]

\* HandleAsyncTrigger up to the await of step 3a: the loading path is set,
\* the error path cleared, the effect started; its outcome stays in flight
\* until the promise settles.
HandleAsyncTrigger(rt, env, asyncPath, asyncDef, context) ==
  AndThen(
    InternalWrite(rt, env, asyncDef.loadingPath, Bool(TRUE)),
    LAMBDA step1 :
      AndThen(
        InternalWrite(step1, env, asyncDef.errorPath, Null),
        LAMBDA step2 :
          StartEffect(step2, asyncPath,
                      RunEffect(asyncDef.effect,
                                [handler |-> env.handler,
                                 context |-> context, now |-> env.now]))))

\* Steps 3b or 4a of HandleAsyncTrigger: the outcome goes to the result
\* path when RunEffect returned, to the error path when it threw.
StoreOutcome(rt, env, asyncDef, result) ==
  IF result.t = "throw"
  THEN InternalWrite(rt, env, asyncDef.errorPath, result.v)
  ELSE InternalWrite(rt, env, asyncDef.resultPath, ResultValue(result))

\* HandleAsyncTrigger from the await on.
SettleAsyncTrigger(rt, env, flight) ==
  AndThen(
    StoreOutcome([rt EXCEPT !.inflight = @ \ {flight}], env,
                 env.graph.defn[flight.path], flight.result),
    LAMBDA stored :
      InternalWrite(stored, env, env.graph.defn[flight.path].loadingPath,
                    Bool(FALSE)))

ExecuteAsyncWithCondition(rt, env, asyncPath, asyncDef, context) ==
  LET rt1 == [rt EXCEPT !.pendingTimers =
                 [k \in (DOMAIN @) \ {asyncPath} |-> @[k]]]
      shouldExecute == Truthy(Evaluate(asyncDef.condition, context, env.now))
  IN IF asyncDef.hasCondition /\ ~shouldExecute THEN rt1
     ELSE HandleAsyncTrigger(rt1, env, asyncPath, asyncDef, context)

\* setTimeout: a new live timer, due after the debounce delay.
SetTimeout(rt, env, asyncPath, asyncDef, context) ==
  LET timerId == rt.nextTimer + 1
  IN [rt EXCEPT !.nextTimer = timerId,
                !.timers = @ \cup {[id |-> timerId, path |-> asyncPath,
                                    context |-> context,
                                    due |-> env.now + asyncDef.debounce]},
                !.pendingTimers = Put(@, asyncPath, timerId)]

\* ScheduleAsyncEffect without step 2: an existing timer is left running.
ScheduleAsyncEffect_NoCancel(rt, env, asyncPath, asyncDef, context) ==
  IF asyncDef.debounce > 0
  THEN SetTimeout(rt, env, asyncPath, asyncDef, context)
  ELSE ExecuteAsyncWithCondition(rt, env, asyncPath, asyncDef, context)

ScheduleAsyncEffect(rt, env, asyncPath, asyncDef, context) ==
  LET key == asyncPath
      rt1 == IF key \in DOMAIN rt.pendingTimers
             THEN [rt EXCEPT
                     !.timers = {t \in @ : t.id # rt.pendingTimers[key]},
                     !.pendingTimers =
                        [k \in (DOMAIN @) \ {key} |-> @[k]]]
             ELSE rt
  IN IF asyncDef.debounce > 0
     THEN SetTimeout(rt1, env, asyncPath, asyncDef, context)
     ELSE ExecuteAsyncWithCondition(rt1, env, asyncPath, asyncDef, context)

\* Step 8 of set: the pending effects, in array order, go to the debounce
\* manager of the async node that produced them.
RECURSIVE ExecutePendingEffects(_, _, _, _)
ExecutePendingEffects(rt, env, pendingEffects, context) ==
  IF pendingEffects = <<>> THEN rt
  ELSE LET pending == Head(pendingEffects)
       IN AndThen(
            ScheduleAsyncEffect(rt, env, pending.path,
                                env.graph.defn[pending.path], context),
            LAMBDA scheduled :
              ExecutePendingEffects(scheduled, env, Tail(pendingEffects),
                                    context))

\* Step 7 of set: the subscription manager is notified with the current
\* snapshot and the changed paths.
NotifySubscribers(rt, env, changedPaths) ==
  NotifySnapshotChange(
    [rt EXCEPT !.notified = @ + 1, !.lastChanged = SeqToSet(changedPaths)],
    env, rt.current, changedPaths)

\* Steps 5-8 of set: apply the changes, publish the snapshot, notify,
\* hand the pending effects over with a context on the published snapshot.
PublishAndExecute(rt, env, changedPaths, pendingEffects) ==
  AndThen(
    NotifySubscribers(rt, env, changedPaths),
    LAMBDA notified :
      ExecutePendingEffects(notified, env, pendingEffects,
                            CreateEvaluationContext(rt.current)))

ApplyAndPublish(rt, env, path, newSnapshot, propagationResult) ==
  AndThen(
    [rt EXCEPT !.current =
       ApplyChanges(newSnapshot, propagationResult.changes.keys,
                    propagationResult.changes.val, env.now)],
    LAMBDA published :
      PublishAndExecute(published, env,
                        ChangedPathsArray(<<path>>, propagationResult),
                        propagationResult.pendingEffects))

\* Step 4 of set.
PropagateWrite(rt, env, path, newSnapshot) ==
  AndThen(
    Propagate(env.graph, <<path>>, newSnapshot, env.now),
    LAMBDA propagationResult :
      ApplyAndPublish(rt, env, path, newSnapshot, propagationResult))

\* Steps 3-8 of set: write, propagate, apply, publish, notify, schedule.
InternalWrite(rt, env, path, value) ==
  AndThen(SetValueByPath(rt.current, path, value, env.now),
          LAMBDA newSnapshot : PropagateWrite(rt, env, path, newSnapshot))

\* Steps 2-9 of set for a validation result that reports the error and
\* writes all the same.
SetValidated_WriteAnyway(rt, env, path, value, validationResult) ==
  [rt |-> InternalWrite(rt, env, path, value),
   ok |-> validationResult.valid,
   code |-> IF validationResult.valid THEN ""
            ELSE validationResult.issues[1].code]

\* Steps 2-9 of set.
SetValidated(rt, env, path, value, validationResult) ==
  IF ~validationResult.valid
  THEN [rt |-> rt, ok |-> FALSE, code |-> validationResult.issues[1].code]
  ELSE [rt |-> InternalWrite(rt, env, path, value), ok |-> TRUE, code |-> ""]

\* set(path, value); returns the runtime state and the Result.
SetValue(rt, env, domain, path, value) ==
  SetValidated(rt, env, path, value,
               ValidateWriteOperation(rt.current, path, value, domain,
                                      env.now))

\* ---------------------------------------------------------------- actions
\* A precondition is a ConditionRef [path, expect, hasReason, reason]
\* (expect is "true", "false" or "undefined"; reason is read only when
\* hasReason); an action is a record [preconditions, effect, hasInput,
\* input].
ConditionRef(path, expect) ==
  [path |-> path, expect |-> expect, hasReason |-> FALSE, reason |-> ""]
ConditionWithReason(path, expect, reason) ==
  [path |-> path, expect |-> expect, hasReason |-> TRUE, reason |-> reason]

\* A precondition check that takes every condition to expect true.
EvaluatePrecondition_ExpectTrue(condition, context) ==
  [condition |-> condition,
   actualValue |-> ContextGet(context, condition.path),
   satisfied |-> Truthy(ContextGet(context, condition.path))]
EvaluatePrecondition(condition, context) ==
  [condition |-> condition,
   actualValue |-> ContextGet(context, condition.path),
   satisfied |-> Truthy(ContextGet(context, condition.path))
                   = (condition.expect # "false")]

EvaluateAllPreconditions(conditions, context) ==
  [i \in DOMAIN conditions |-> EvaluatePrecondition(conditions[i], context)]

\* A semantic path as the string the source writes it: parts joined by ".".
RECURSIVE PathToString(_)
PathToString(path) ==
  IF path = <<>> THEN ""
  ELSE IF Len(path) = 1 THEN path[1]
  ELSE path[1] \o "." \o PathToString(Tail(path))

BooleanText(b) == IF b THEN "true" ELSE "false"
GenerateReason(result) ==
  IF result.condition.hasReason
  THEN result.condition.reason
  ELSE PathToString(result.condition.path) \o " should be "
         \o BooleanText(result.condition.expect # "false")
         \o ", but is " \o BooleanText(Truthy(result.actualValue))
GenerateReasons(unsatisfied) ==
  [i \in DOMAIN unsatisfied |-> GenerateReason(unsatisfied[i])]

Unsatisfied(results) == SelectSeq(results, LAMBDA r : ~r.satisfied)
AvailabilityOf(unsatisfied) ==
  [available |-> unsatisfied = <<>>,
   unsatisfiedConditions |-> unsatisfied,
   reasons |-> GenerateReasons(unsatisfied)]
CheckActionAvailability(action, context) ==
  IF action.preconditions = <<>>
  THEN [available |-> TRUE, unsatisfiedConditions |-> <<>>, reasons |-> <<>>]
  ELSE AvailabilityOf(Unsatisfied(
         EvaluateAllPreconditions(action.preconditions, context)))

\* getPreconditions(actionId): the action's preconditions evaluated on the
\* current snapshot.
GetPreconditions(rt, action) ==
  EvaluateAllPreconditions(action.preconditions,
                           CreateEvaluationContext(rt.current))

\* A gate that looks at the first precondition only.
AnyUnsatisfied_FirstOnly(preconditions) ==
  preconditions # <<>> /\ ~preconditions[1].satisfied
\* Step 4 of execute: "If any precondition is unsatisfied".
AnyUnsatisfied(preconditions) ==
  \E i \in DOMAIN preconditions : ~preconditions[i].satisfied

\* The runtime's effect handler: setValue and setState write to the
\* current snapshot, emitEvent goes to the subscription manager.
HandlerCall(rt, env, call) ==
  CASE call.m \in {"setValue", "setState"} ->
         [rt EXCEPT !.current = SetValueByPath(@, call.path, call.v, env.now)]
    [] call.m = "emitEvent" -> EmitEvent(rt, env, call.path, call.v)
    [] OTHER -> rt
RECURSIVE ApplyHandlerCalls(_, _, _)
ApplyHandlerCalls(rt, env, calls) ==
  IF calls = <<>> THEN rt
  ELSE ApplyHandlerCalls(HandlerCall(rt, env, Head(calls)), env, Tail(calls))
RECURSIVE WrittenPaths(_)
WrittenPaths(calls) ==
  IF calls = <<>> THEN <<>>
  ELSE LET rest == WrittenPaths(Tail(calls))
       IN IF Head(calls).m \in {"setValue", "setState"}
             /\ Head(calls).path \notin SeqToSet(rest)
          THEN <<Head(calls).path>> \o rest
          ELSE rest

\* Step 7 of execute: propagate the changes, notify the subscribers.
ExecutePublish(rt, env, writtenPaths, propagationResult) ==
  NotifySubscribers(
    [rt EXCEPT !.current =
       ApplyChanges(rt.current, propagationResult.changes.keys,
                    propagationResult.changes.val, env.now)],
    env, ChangedPathsArray(writtenPaths, propagationResult))
ExecutePropagate(rt, env, writtenPaths) ==
  ExecutePublish(rt, env, writtenPaths,
                 Propagate(env.graph, writtenPaths, rt.current, env.now))

\* Steps 6-8 of execute for the outcome r of RunEffect.
ExecuteFinish(rt, env, r) ==
  [rt |-> IF r.result.t = "ok"
          THEN ExecutePropagate(rt, env, WrittenPaths(r.calls))
          ELSE rt,
   result |-> r.result]
ExecuteRun(rt, env, r) ==
  ExecuteFinish(ApplyHandlerCalls([rt EXCEPT !.effectCalls = r.calls], env,
                                  r.calls),
                env, r)

\* Steps 3-8 of execute.
ExecuteAction(rt, env, action, input) ==
  IF AnyUnsatisfied(GetPreconditions(rt, action))
  THEN [rt |-> rt, result |-> ErrResult("PRECONDITIONS_NOT_MET", Null)]
  ELSE IF action.hasInput /\ input # Undef
          /\ ValidateValue(action.input, input, <<>>) # <<>>
  THEN [rt |-> rt, result |-> ErrResult("INVALID_INPUT", Null)]
  ELSE ExecuteRun(rt, env,
                  RunEffect(action.effect,
                            [handler |-> env.handler,
                             context |-> CreateEvaluationContext(rt.current),
                             now |-> env.now]))

\* execute(actionId, input); returns the runtime state and the Result.
Execute(rt, env, domain, actionId, input) ==
  IF actionId \notin DOMAIN domain.actions
  THEN [rt |-> rt, result |-> ErrResult("ACTION_NOT_FOUND", Str(actionId))]
  ELSE ExecuteAction(rt, env, domain.actions[actionId], input)

\* ---------------------------------------------------------------- dispose
\* dispose(): remove all listeners, cancel the pending (debounced) async
\* effects, mark the runtime as disposed.  An effect already in flight is
\* a promise the runtime cannot cancel: abandons says whether the
\* implementation drops its continuation or lets it run.
Dispose(rt, abandons) ==
  [rt EXCEPT !.snapshotListeners = <<>>, !.pathListeners = <<>>,
             !.eventListeners = <<>>,
             !.timers = {}, !.pendingTimers = <<>>,
             !.inflight = IF abandons THEN {} ELSE @,
             !.disposed = TRUE,
             !.disposedWith = [timers |-> rt.timers,
                               inflight |-> rt.inflight]]

\* CreateRuntime: build the graph, create the snapshot, run the initial
\* propagation over the source paths and apply its changes; the pending
\* effects of the initial propagation are not executed.
InitialPropagation(graph, snapshot, now) ==
  Propagate(graph,
            SelectSeq(graph.order, LAMBDA p : graph.kind[p] = "source"),
            snapshot, now).changes

InitialSnapshot(snapshot, changes, now) ==
  ApplyChanges(snapshot, changes.keys, changes.val, now)

CreatedSnapshot(graph, snapshot, now) ==
  InitialSnapshot(snapshot, InitialPropagation(graph, snapshot, now), now)

CreateRuntime(domain, initialData, now) ==
  [current |-> CreatedSnapshot(
                 BuildDependencyGraph(domain),
                 CreateSnapshot(initialData, domain.initialState, now), now),
   timers |-> {}, pendingTimers |-> <<>>, inflight |-> {},
   nextTimer |-> 0, executions |-> 0, apiCalls |-> 0, notified |-> 0,
   lastChanged |-> {},
   snapshotListeners |-> <<>>, pathListeners |-> <<>>,
   eventListeners |-> <<>>, gone |-> {}, log |-> <<>>, effectCalls |-> <<>>,
   disposed |-> FALSE, disposedWith |-> [timers |-> {}, inflight |-> {}]]

\* =================================================================== state
VARIABLES
  clock,      \* the wall clock read by Date.now()
  chain,      \* snapshot lineage: the store of snapshots S0, S1, ... by index
  seen,       \* each snapshot of the lineage as it was when it was returned
  evExpr,     \* expression under evaluation
  evSnap,     \* snapshot the evaluation context is built from
  evR1,       \* result of the first evaluation (or NotYet)
  evR2,       \* result of the second evaluation (or NotYet)
  fxEffect,   \* effect handed to RunEffect
  fxHandler,  \* behaviour of the injected handler
  fxOut,      \* [result, calls] of the run (or NotRun)
  gDomain,    \* domain definition handed to BuildDependencyGraph
  gOut,       \* outcome of the construction
  runtime,    \* state of the DomainRuntime (or NoRuntime)
  lastOp,     \* the latest operation on the runtime and its Result
  pgIn,       \* a domain, its created snapshot and a write to propagate
  pgOut,      \* outcome of the write and its propagation
  parIn,      \* a Parallel effect and the handler it runs against
  par,        \* progress of the Parallel effect's run
  call,       \* a pure operation under study and its arguments
  ret         \* what the operation returned (or NotReturned)

snapVars == <<chain, seen>>
evalVars == <<evExpr, evSnap, evR1, evR2>>
fxVars == <<fxEffect, fxHandler, fxOut>>
graphVars == <<gDomain, gOut>>
rtVars == <<runtime, lastOp>>
pgVars == <<pgIn, pgOut>>
parVars == <<parIn, par>>
fnVars == <<call, ret>>
vars ==
  <<clock, snapVars, evalVars, fxVars, graphVars, rtVars, pgVars, parVars,
    fnVars>>

\* Values of the variables a specification does not use.
NotYet == [k |-> "notyet", n |-> 0, s |-> "", o |-> <<>>]
NotRun == [result |-> [t |-> "notrun", v |-> Undef, code |-> ""],
           calls |-> <<>>]
NoEffect == Effect("None", <<>>, Lit(Null), "", <<>>)
NoHandler == [rejects |-> {}, throwing |-> {}]
NoDomain == [sources |-> <<>>, derived |-> <<>>, async |-> <<>>]
NotBuilt == [pc |-> "idle", topologicalOrder |-> <<>>, nodes |-> {}]
NoRuntime == [current |-> 0]
NoOp == [op |-> "none", path |-> <<>>, ok |-> TRUE, code |-> ""]
NoWrite == [domain |-> NoDomain]
NotPropagated == [pc |-> "idle"]
NoParallel == [effect |-> NoEffect, handler |-> NoHandler]
NotStarted == [pc |-> "idle"]
NoCall == [fn |-> "none"]
NotReturned == [pc |-> "idle"]

SnapIdle == chain = <<>> /\ seen = <<>>
EvalIdle == evExpr = Lit(Null) /\ evSnap = 0 /\ evR1 = NotYet /\ evR2 = NotYet
FxIdle == fxEffect = NoEffect /\ fxHandler = NoHandler /\ fxOut = NotRun
GraphIdle == gDomain = NoDomain /\ gOut = NotBuilt
RtIdle == runtime = NoRuntime /\ lastOp = NoOp
PgIdle == pgIn = NoWrite /\ pgOut = NotPropagated
ParIdle == parIn = NoParallel /\ par = NotStarted
FnIdle == call = NoCall /\ ret = NotReturned

Tick == /\ clock < MaxClock
        /\ clock' = clock + 1

\* ================================================= snapshot lineage (2.4)
P_count == <<"data", "count">>
P_name == <<"data", "user", "name">>
P_flag == <<"state", "flag">>
P_dx == <<"derived", "x">>
LineagePaths == {P_count, P_name, P_flag, P_dx}
LineageValues == {Num(2), Str("a")}
LineageData == {EmptyObj, Obj("count" :> Num(1))}

\* A modification operation on the stored snapshot i: the result is a new
\* snapshot, stored next to the input.
ModifyStored(store, i, path, value, now) ==
  Append(store, SetValueByPath(store[i], path, value, now))

SnapInit ==
  /\ clock \in 0..MaxClock
  /\ \E d \in LineageData :
       chain = <<CreateSnapshot(d, EmptyObj, clock)>>
  /\ seen = chain
  /\ EvalIdle /\ FxIdle /\ GraphIdle /\ RtIdle /\ PgIdle /\ ParIdle /\ FnIdle

Modify ==
  /\ Len(chain) <= MaxChain
  /\ \E path \in LineagePaths, value \in LineageValues :
       /\ chain' = ModifyStored(chain, Len(chain), path, value, clock)
       /\ seen' = Append(seen, chain'[Len(chain')])
  /\ UNCHANGED <<clock, evalVars, fxVars, graphVars, rtVars, pgVars, parVars, fnVars>>

SnapTick == Tick /\ UNCHANGED <<snapVars, evalVars, fxVars, graphVars, rtVars, pgVars, parVars, fnVars>>

SnapNext == Modify \/ SnapTick
SpecSnapshot == SnapInit /\ [][SnapNext]_vars

\* C1 -- Version/identity: along the lineage S0 -> S1 -> ... started by
\* CreateSnapshot, Si.version = i (each SetValueByPath returns a snapshot
\* whose version is the input's plus one), and every snapshot of the lineage
\* still holds exactly what it held when it was returned.
VersionIdentity ==
  \A i \in DOMAIN chain :
    /\ chain[i].version = i - 1
    /\ chain[i] = seen[i]
    /\ i > 1 => chain[i].version = seen[i - 1].version + 1

\* Three modifications were made: S3 exists, S0 differs from it in content.
VersionIdentityWitness ==
  /\ Len(chain) >= 4
  /\ chain[4].version = 3
  /\ chain[1].version = 0
  /\ chain[1].data # chain[4].data

\* The lineage under a wall clock that can also be set back (Date.now() is
\* the system time, which an adjustment of the clock moves either way).
TsInit ==
  /\ clock \in 0..MaxClock
  /\ chain = <<CreateSnapshot(EmptyObj, EmptyObj, clock)>>
  /\ seen = chain
  /\ EvalIdle /\ FxIdle /\ GraphIdle /\ RtIdle /\ PgIdle /\ ParIdle /\ FnIdle

TsOthers ==
  <<evalVars, fxVars, graphVars, rtVars, pgVars, parVars, fnVars>>

TsModify ==
  /\ Len(chain) <= MaxChain
  /\ \E path \in {P_count, P_flag} :
       /\ chain' = ModifyStored(chain, Len(chain), path, Num(2), clock)
       /\ seen' = Append(seen, chain'[Len(chain')])
  /\ UNCHANGED <<clock, TsOthers>>

TsTick == Tick /\ UNCHANGED <<snapVars, TsOthers>>

ClockAdjust ==
  /\ \E t \in 0..MaxClock : t < clock /\ clock' = t
  /\ UNCHANGED <<snapVars, TsOthers>>

TsNext == TsModify \/ TsTick \/ ClockAdjust
SpecTimestamps == TsInit /\ [][TsNext]_vars

\* C26 -- Timestamps are non-decreasing along a snapshot lineage: every
\* snapshot produced by a modification has a timestamp at least that of
\* the snapshot it was produced from, whatever the wall clock returns
\* between the two operations.
TimestampsNonDecreasing ==
  \A i \in DOMAIN chain :
    i > 1 => chain[i].timestamp >= chain[i - 1].timestamp

\* ==================================================== evaluation (5.16)
P_price == <<"data", "price">>
P_missing == <<"data", "missing">>
EvalLeaves ==
  {Lit(Num(2)), Lit(Num(0)), Get(P_price), Get(P_missing), NowExpr}
EvalOps == {"+", "*", "/", ">=", "==", "bogus"}
\* leaves, and one operator applied to two leaves
EvalExprs ==
  EvalLeaves \cup {Op2(o, a, b) : o \in EvalOps, a \in EvalLeaves, b \in EvalLeaves}
EvalSnapshots ==
  {CreateSnapshot(Obj("price" :> Num(p)), EmptyObj, 0) : p \in {100, 200}}

EvalInit ==
  /\ clock \in 0..MaxClock
  /\ evExpr \in EvalExprs
  /\ evSnap \in EvalSnapshots
  /\ evR1 = NotYet /\ evR2 = NotYet
  /\ SnapIdle /\ FxIdle /\ GraphIdle /\ RtIdle /\ PgIdle /\ ParIdle /\ FnIdle

\* evaluate(E, context(S)), called for the first time
EvalFirst ==
  /\ evR1 = NotYet
  /\ evR1' = Evaluate(evExpr, CreateEvaluationContext(evSnap), clock)
  /\ UNCHANGED <<clock, evExpr, evSnap, evR2, snapVars, fxVars, graphVars, rtVars, pgVars, parVars, fnVars>>

\* evaluate(E, context(S)), called for the second time
EvalSecond ==
  /\ evR1 # NotYet /\ evR2 = NotYet
  /\ evR2' = Evaluate(evExpr, CreateEvaluationContext(evSnap), clock)
  /\ UNCHANGED <<clock, evExpr, evSnap, evR1, snapVars, fxVars, graphVars, rtVars, pgVars, parVars, fnVars>>

EvalTick == Tick /\ UNCHANGED <<snapVars, evalVars, fxVars, graphVars, rtVars, pgVars, parVars, fnVars>>

EvalNext == EvalFirst \/ EvalSecond \/ EvalTick
SpecEval == EvalInit /\ [][EvalNext]_vars

\* C10 -- Determinism: evaluating an expression twice against a context
\* built from the same snapshot yields identical results, for every
\* expression of the language, date functions included.
Determinism == (evR1 # NotYet /\ evR2 # NotYet) => evR1 = evR2

\* C24 -- Evaluating a division whose divisor evaluates to zero fails with
\* the error 'Division by zero' and never returns an infinity, for every
\* dividend.
DivisionByZeroFails ==
  (evR1 # NotYet /\ evExpr.op = "/" /\ evExpr.args[2] = Lit(Num(0)))
    => evR1 = Thrown("Division by zero")

\* ================================================ effect execution (7.6)
P_x == <<"data", "x">>
P_err == <<"state", "error">>
EP_a == Lit(Str("/api/a"))
EP_b == Lit(Str("/api/b"))
\* leaf effects: two API calls, two state writes, one write whose value
\* expression uses an operator the evaluator does not know
FxLeaves ==
  <<ApiCallEffect(EP_a), ApiCallEffect(EP_b),
    SetValueEffect(P_x, Lit(Num(1))), SetStateEffect(P_err, Lit(Str("failed"))),
    SetValueEffect(P_x, Op1("bogus", Lit(Num(1))))>>
MaxKids == 3           \* longest Sequence explored
FxLeafSet == SeqToSet(FxLeaves)
\* Sequences of up to MaxKids leaves (the empty one included)
FxSequences ==
  {SequenceEffect(kids) :
     kids \in UNION {[1..n -> FxLeafSet] : n \in 0..MaxKids}}
\* a try branch is a leaf or a two-step Sequence
FxTries ==
  FxLeafSet \cup {SequenceEffect(<<a, b>>) : a \in FxLeafSet, b \in FxLeafSet}
FxCatches ==
  {CatchEffect(<<t, c>>) : t \in FxTries, c \in FxLeafSet}
    \cup {CatchEffect(<<t, c, f>>) :
            t \in FxTries, c \in FxLeafSet, f \in FxLeafSet}
FxEffects == FxSequences \cup FxCatches
FxHandlers ==
  {[rejects |-> r, throwing |-> {}] : r \in SUBSET {EP_a.lit, EP_b.lit}}

FxConfig ==
  [handler |-> fxHandler,
   context |-> CreateEvaluationContext(CreateSnapshot(EmptyObj, EmptyObj, 0)),
   now |-> clock]

FxInit ==
  /\ clock = 0
  /\ fxEffect \in FxEffects
  /\ fxHandler \in FxHandlers
  /\ fxOut = NotRun
  /\ SnapIdle /\ EvalIdle /\ GraphIdle /\ RtIdle /\ PgIdle /\ ParIdle /\ FnIdle

\* await RunEffect(effect, config)
Run ==
  /\ fxOut = NotRun
  /\ fxOut' = RunEffect(fxEffect, FxConfig)
  /\ UNCHANGED <<clock, fxEffect, fxHandler, snapVars, evalVars, graphVars, rtVars, pgVars, parVars, fnVars>>

FxNext == Run
SpecEffect == FxInit /\ [][FxNext]_vars

\* The outcome of running child i of the effect on its own.
Kid(i) == RunEffect(fxEffect.kids[i], FxConfig)
Failed(out) == out.result.t # "ok"
RECURSIVE ConcatCalls(_, _)
ConcatCalls(from, to) ==
  IF from > to THEN <<>> ELSE Kid(from).calls \o ConcatCalls(from + 1, to)

\* C6 -- Sequence fail-fast: the children run in array order; when a child
\* fails no later child is started (none of its handler calls occurs) and
\* the overall result is that child's error; when all children succeed the
\* result is the last child's result.
SequenceFailFast ==
  (fxOut # NotRun /\ fxEffect.tag = "Sequence") =>
    LET n == Len(fxEffect.kids)
        failing == {i \in 1..n : Failed(Kid(i))}
    IN IF failing = {}
       THEN /\ fxOut.calls = ConcatCalls(1, n)
            /\ fxOut.result = IF n = 0 THEN Ok(Undef) ELSE Kid(n).result
       ELSE LET first == CHOOSE i \in failing : \A j \in failing : i <= j
            IN /\ fxOut.calls = ConcatCalls(1, first)
               /\ fxOut.result = Kid(first).result

\* A Sequence of three effects whose second child failed with an error
\* result: the third child made no call.
SequenceFailFastWitness ==
  /\ fxOut # NotRun /\ fxEffect.tag = "Sequence"
  /\ Len(fxEffect.kids) = 3
  /\ ~Failed(Kid(1)) /\ Kid(2).result.t = "err"
  /\ Kid(3).calls # <<>>
  /\ fxOut.result.t = "err"
  /\ Len(fxOut.calls) = 2

\* C7 -- Catch+finally: when try fails (an error result), catch runs, then
\* finally if present, and catch's result is returned; when try succeeds,
\* catch is not run, finally (if present) runs and try's result is returned.
CatchFinally ==
  (fxOut # NotRun /\ fxEffect.tag = "Catch") =>
    LET fin == IF Len(fxEffect.kids) = 3 THEN Kid(3).calls ELSE <<>>
    IN IF Failed(Kid(1))
       THEN /\ fxOut.calls = Kid(1).calls \o Kid(2).calls \o fin
            /\ fxOut.result = Kid(2).result
       ELSE /\ fxOut.calls = Kid(1).calls \o fin
            /\ fxOut.result = Kid(1).result


\* C15 -- Every failure of RunEffect is returned as a typed result with a
\* failure tag, never as a thrown exception: a run that fails ends in an
\* Err result also when a value expression fails to evaluate.
FailuresAreTyped ==
  fxOut # NotRun => fxOut.result.t \in {"ok", "err"}

\* ============================================= graph construction (7.3)
P_a == <<"derived", "a">>
P_b == <<"derived", "b">>
P_c == <<"derived", "c">>
P_src == <<"data", "x">>
GraphDerived == <<P_a, P_b, P_c>>
GraphDepChoices == SUBSET {P_src, P_a, P_b, P_c}
\* declared deps, in a fixed order
DepSeq(deps) ==
  SelectSeq(<<P_src, P_a, P_b, P_c>>, LAMBDA p : p \in deps)
\* a domain with one source and three derived paths whose declared
\* dependencies are da, db, dc
GraphDomain(da, db, dc) ==
  [sources |-> <<[path |-> P_src]>>,
   derived |-> <<[path |-> P_a, deps |-> DepSeq(da), expr |-> Lit(Num(1))],
                 [path |-> P_b, deps |-> DepSeq(db), expr |-> Get(P_a)],
                 [path |-> P_c, deps |-> DepSeq(dc), expr |-> Lit(Num(1))]>>,
   async |-> <<>>]

GraphInit ==
  /\ clock = 0
  /\ \E da \in GraphDepChoices, db \in GraphDepChoices, dc \in GraphDepChoices :
       gDomain = GraphDomain(da, db, dc)
  /\ gOut = NotBuilt
  /\ SnapIdle /\ EvalIdle /\ FxIdle /\ RtIdle /\ PgIdle /\ ParIdle /\ FnIdle

\* BuildDependencyGraph(domain) returns
Build ==
  /\ gOut.pc = "idle"
  /\ LET g == BuildDependencyGraph(gDomain)
     IN gOut' = [pc |-> "returned",
                 topologicalOrder |-> g.topologicalOrder,
                 nodes |-> DOMAIN g.kind]
  /\ UNCHANGED <<clock, gDomain, snapVars, evalVars, fxVars, rtVars, pgVars, parVars, fnVars>>

GraphNext == Build
SpecGraph == GraphInit /\ [][GraphNext]_vars

\* The dependency edges of a domain, and whether they contain a cycle.
DeclaredDeps(domain, p) ==
  UNION {SeqToSet(domain.derived[i].deps) \cup ExtractPaths(domain.derived[i].expr) :
           i \in {j \in DOMAIN domain.derived : domain.derived[j].path = p}}
RECURSIVE ReachFrom(_, _, _)
ReachFrom(domain, frontier, found) ==
  LET next == UNION {DeclaredDeps(domain, p) : p \in frontier}
  IN IF next \subseteq found THEN found
     ELSE ReachFrom(domain, next \ found, found \cup next)
HasDependencyCycle(domain) ==
  \E i \in DOMAIN domain.derived :
    domain.derived[i].path \in ReachFrom(domain, {domain.derived[i].path}, {})

\* C5 -- Cycle rejection: graph construction for a domain whose dependency
\* edges contain a cycle fails; it never returns a graph (with a partial
\* topological order) for such a domain.
CycleRejection ==
  gOut.pc = "returned" => ~HasDependencyCycle(gDomain)

\* ========================================================= runtime (7.7)
\* A runtime created for a domain with two sources, two derived values and
\* one debounced async search, driven by set calls, timer expiries, settled
\* API calls and the passing of time.
R_price == <<"data", "price">>
R_cents == <<"data", "price", "cents">>
R_q == <<"data", "q">>
R_tax == <<"derived", "tax">>
R_total == <<"derived", "total">>
R_search == <<"async", "search">>
R_results == <<"state", "results">>
R_loading == <<"state", "loading">>
R_error == <<"state", "error">>
EP_search == Str("/api/search")

\* The debounce delay of async.search, in ticks of the clock.
Debounce == 1

RtDomain ==
  [sources |->
     <<[path |-> R_price, schema |-> [isObject |-> FALSE, hasMin |-> TRUE, min |-> 0]],
       [path |-> R_q, schema |-> [isObject |-> FALSE, hasMin |-> FALSE, min |-> 0]]>>,
   derived |->
     <<[path |-> R_tax, deps |-> <<R_price>>,
        expr |-> Op2("*", Get(R_price), Lit(Fix(1)))],
       [path |-> R_total, deps |-> <<R_price, R_tax>>,
        expr |-> Op2("+", Get(R_price), Get(R_tax))]>>,
   async |->
     <<[path |-> R_search, deps |-> <<R_q>>,
        hasCondition |-> TRUE,
        condition |-> Op2(">=", Get(R_q), Lit(Num(3))),
        debounce |-> Debounce,
        effect |-> ApiCallEffect(Lit(EP_search)),
        resultPath |-> R_results, loadingPath |-> R_loading,
        errorPath |-> R_error]>>,
   invariants |->
     <<[condition |-> Op2("<=", Get(R_q), Lit(Num(5))), path |-> R_q]>>,
   initialState |-> Obj("loading" :> Bool(FALSE))]

RtInitialData == Obj(("price" :> Num(100)) @@ ("q" :> Num(0)))
RtGraph == BuildDependencyGraph(RtDomain)

\* The set calls the clients make: valid writes of both sources, a write
\* outside the schema, one that breaks the invariant, one below a
\* primitive, and one of a derived path.
RtWrites ==
  ({R_price} \X {Num(200), Fix(0 - 50)})
    \cup ({R_q} \X {Num(0), Num(5), Num(7)})
    \cup ({R_cents, R_total} \X {Num(1)})
    \cup ({R_tax} \X {Num(1), Str("x")})
RtHandlers == {[rejects |-> {}, throwing |-> {}],
               [rejects |-> {EP_search}, throwing |-> {}]}
Env(h) ==
  [graph |-> RtGraph, handler |-> h, now |-> clock, domain |-> RtDomain,
   behaviour |-> <<>>]

Init ==
  /\ clock = 0
  /\ runtime = CreateRuntime(RtDomain, RtInitialData, 0)
  /\ lastOp = [op |-> "create", path |-> <<>>, ok |-> TRUE, code |-> ""]
  /\ SnapIdle /\ EvalIdle /\ FxIdle /\ GraphIdle /\ PgIdle /\ ParIdle /\ FnIdle

\* runtime.set(path, value)
Set(path, value) ==
  /\ runtime.current.version < MaxVersion
  /\ LET r == SetValue(runtime, Env(NoHandler), RtDomain, path, value)
     IN /\ runtime' = r.rt
        /\ lastOp' = [op |-> "set", path |-> path, ok |-> r.ok,
                      code |-> r.code]
  /\ UNCHANGED <<clock, snapVars, evalVars, fxVars, graphVars, pgVars, parVars, fnVars>>

\* A debounce timer expires and its callback runs; h is how the handler
\* answers the API call the callback may make.
TimerFire ==
  \E t \in runtime.timers, h \in RtHandlers :
    /\ runtime.current.version < MaxVersion
    /\ clock >= t.due
    /\ runtime' = ExecuteAsyncWithCondition(
                     [runtime EXCEPT !.timers = @ \ {t}], Env(h), t.path,
                     RtGraph.defn[t.path], t.context)
    /\ lastOp' = [op |-> "fire", path |-> t.path, ok |-> TRUE, code |-> ""]
    /\ UNCHANGED <<clock, snapVars, evalVars, fxVars, graphVars, pgVars, parVars, fnVars>>

\* The promise of an effect in flight settles.
ApiSettle ==
  \E flight \in runtime.inflight :
    /\ runtime.current.version < MaxVersion
    /\ runtime' = SettleAsyncTrigger(runtime, Env(NoHandler), flight)
    /\ lastOp' = [op |-> "settle", path |-> flight.path, ok |-> TRUE,
                  code |-> ""]
    /\ UNCHANGED <<clock, snapVars, evalVars, fxVars, graphVars, pgVars, parVars, fnVars>>

\* Time passes.
RtTick ==
  /\ clock < MaxTime
  /\ clock' = clock + 1
  /\ lastOp' = [op |-> "tick", path |-> <<>>, ok |-> TRUE, code |-> ""]
  /\ UNCHANGED <<runtime, snapVars, evalVars, fxVars, graphVars, pgVars, parVars, fnVars>>

Next ==
  \/ \E w \in RtWrites : Set(w[1], w[2])
  \/ TimerFire
  \/ ApiSettle
  \/ RtTick
Spec == Init /\ [][Next]_vars

RtSourcePaths == {RtDomain.sources[i].path : i \in DOMAIN RtDomain.sources}
RtDerivedPaths == {RtDomain.derived[i].path : i \in DOMAIN RtDomain.derived}
RtAsyncPaths == {RtDomain.async[i].path : i \in DOMAIN RtDomain.async}
\* The condition of an async node over a snapshot.
ConditionHolds(asyncPath, snapshot) ==
  EvaluateAsyncCondition(RtGraph.defn[asyncPath],
                         CreateEvaluationContext(snapshot), clock)

\* C2 -- Read-only derived: a set whose path lies in the derived namespace
\* returns the error READONLY_VIOLATION, whatever the current snapshot and
\* the value, and leaves the current snapshot as it was.
ReadOnlyDerived ==
  [][(lastOp'.op = "set" /\ Head(lastOp'.path) = "derived")
       => /\ ~lastOp'.ok
          /\ lastOp'.code = "READONLY_VIOLATION"
          /\ runtime'.current = runtime.current]_vars

\* A set of a derived path was rejected on a snapshot that earlier writes
\* had already changed.
ReadOnlyDerivedWitness ==
  /\ lastOp.op = "set" /\ Head(lastOp.path) = "derived"
  /\ lastOp.code = "READONLY_VIOLATION"
  /\ GetValueByPath(runtime.current, R_price) = Num(200)

\* C3 -- Failed validation: a set that fails validation returns an error
\* and changes nothing: the current snapshot keeps its version and values,
\* no listener is notified, no timer is created or cancelled and no async
\* effect is started.
FailedValidationLeavesState ==
  [][(lastOp'.op = "set" /\ ~lastOp'.ok)
       => /\ lastOp'.code # ""
          /\ runtime' = runtime]_vars

\* A write that breaks the domain invariant was refused while a debounce
\* timer was pending.
FailedValidationWitness ==
  /\ lastOp.op = "set" /\ ~lastOp.ok
  /\ lastOp.code = "INVARIANT_VIOLATION"
  /\ runtime.timers # {}
  /\ runtime.notified = 1

\* The derived paths whose value differs between two snapshots.
ChangedDerived(before, after) ==
  {d \in RtDerivedPaths : GetValueByPath(before, d) # GetValueByPath(after, d)}
\* Every path of ps holds the value of its expression over the snapshot.
HoldsExpression(ps, snapshot) ==
  \A d \in ps :
    GetValueByPath(snapshot, d)
      = Evaluate(RtGraph.defn[d].expr, CreateEvaluationContext(snapshot),
                 clock)
\* The example of the price: 100 -> 200.
PriceExample ==
  (/\ lastOp'.path = R_price
   /\ GetValueByPath(runtime.current, R_price) = Num(100)
   /\ GetValueByPath(runtime'.current, R_price) = Num(200))
    => /\ runtime'.lastChanged = {R_price, R_tax, R_total}
       /\ GetValueByPath(runtime'.current, R_total) = Num(220)

TriggeredLoading(p, snapshot) ==
  {RtGraph.defn[a].loadingPath :
     a \in {n \in RtAsyncPaths \cap GetAllDependents(RtGraph, p) :
              ConditionHolds(n, snapshot)}}

ConditionAtFireTime ==
  [][lastOp'.op = "fire"
       => (runtime'.executions = runtime.executions + 1
             <=> ConditionHolds(lastOp'.path, runtime.current))]_vars


\* C16 -- At the facade the snapshot has version 0 right after
\* createRuntime, every successful set increases getSnapshot().version by
\* exactly 1 however many derived paths propagation applies, and the
\* version never decreases.
FacadeVersionStep ==
  /\ [](lastOp.op = "create" => runtime.current.version = 0)
  /\ [][/\ runtime'.current.version >= runtime.current.version
        /\ (lastOp'.op = "set" /\ lastOp'.ok)
             => runtime'.current.version = runtime.current.version + 1]_vars

\* ====================================================== propagation (7.5)
\* One write to a created snapshot of a small domain, propagated once.  The
\* domain has the sources data.n and data.user and three derived paths whose
\* expressions are drawn from the sets below; derived.b may read derived.a,
\* derived.c may read derived.a and derived.b.
W_n == <<"data", "n">>
W_user == <<"data", "user">>
W_name == <<"data", "user", "name">>
PgFailing == Op1("bogus", Get(W_n))
PgExprsA == {Op2("+", Get(W_n), Lit(Num(1))), PgFailing, Get(W_user),
             Get(W_name)}
PgExprsB == {Op2("*", Get(W_n), Lit(Num(2))), PgFailing, Get(P_a),
             Op2("+", Get(P_a), Lit(Num(1)))}
PgExprsC == {Op2("+", Get(W_n), Lit(Num(3))), PgFailing, Get(P_a), Get(P_b),
             Get(W_user)}
PgDepSeq(expr) ==
  SelectSeq(<<W_n, W_user, W_name, P_a, P_b, P_c>>,
            LAMBDA p : p \in ExtractPaths(expr))
PgDomain(ea, eb, ec) ==
  [sources |->
     <<[path |-> W_n,
        schema |-> [isObject |-> FALSE, hasMin |-> FALSE, min |-> 0]],
       [path |-> W_user,
        schema |-> [isObject |-> TRUE, hasMin |-> FALSE, min |-> 0]]>>,
   derived |-> <<[path |-> P_a, deps |-> PgDepSeq(ea), expr |-> ea],
                 [path |-> P_b, deps |-> PgDepSeq(eb), expr |-> eb],
                 [path |-> P_c, deps |-> PgDepSeq(ec), expr |-> ec]>>,
   async |-> <<>>,
   invariants |-> <<>>,
   initialState |-> EmptyObj]
PgInitialData ==
  Obj(("n" :> Num(1)) @@ ("user" :> Obj("name" :> Str("a"))))
PgWrites ==
  ({W_n} \X {Num(1), Num(2)})
    \cup ({W_user} \X {Obj("name" :> Str("a")), Obj("name" :> Str("b"))})
    \cup ({W_name} \X {Str("b")})
\* The snapshot a runtime created for the domain starts with.
PgCreated(domain) ==
  CreatedSnapshot(BuildDependencyGraph(domain),
                  CreateSnapshot(PgInitialData, domain.initialState, 0), 0)

PgInit ==
  /\ clock = 0
  /\ \E ea \in PgExprsA, eb \in PgExprsB, ec \in PgExprsC, w \in PgWrites :
       pgIn = [domain |-> PgDomain(ea, eb, ec),
               snapshot |-> PgCreated(PgDomain(ea, eb, ec)),
               path |-> w[1], value |-> w[2]]
  /\ pgOut = NotPropagated
  /\ SnapIdle /\ EvalIdle /\ FxIdle /\ GraphIdle /\ RtIdle /\ ParIdle /\ FnIdle

\* Steps 3-5 of set for a write with the changes and errors it produced.
PgOutcome(newSnapshot, propagationResult, now) ==
  [pc |-> "done",
   changes |-> propagationResult.changes,
   errors |-> propagationResult.errors,
   after |-> ApplyChanges(newSnapshot, propagationResult.changes.keys,
                          propagationResult.changes.val, now)]
PgWritten(graph, path, newSnapshot, now) ==
  PgOutcome(newSnapshot, Propagate(graph, <<path>>, newSnapshot, now), now)

\* The write is made and propagated.
PropagateOnce ==
  /\ pgOut.pc = "idle"
  /\ pgOut' = PgWritten(BuildDependencyGraph(pgIn.domain), pgIn.path,
                        SetValueByPath(pgIn.snapshot, pgIn.path, pgIn.value,
                                       clock),
                        clock)
  /\ UNCHANGED <<clock, pgIn, snapVars, evalVars, fxVars, graphVars, rtVars,
                 parVars, fnVars>>

PgNext == PropagateOnce
SpecPropagate == PgInit /\ [][PgNext]_vars

\* The derived paths of the domain, and those whose expression fails.
PgDerivedPaths(domain) ==
  {domain.derived[i].path : i \in DOMAIN domain.derived}
PgExprOf(domain, p) ==
  domain.derived[CHOOSE i \in DOMAIN domain.derived :
                   domain.derived[i].path = p].expr
PgFailed(domain) ==
  {p \in PgDerivedPaths(domain) : PgExprOf(domain, p) = PgFailing}
\* The paths the write affects: those that read the written path, directly
\* or through other derived paths.
PgAffected(domain, path) ==
  {p \in PgDerivedPaths(domain) : path \in ReachFrom(domain, {p}, {})}
\* The derived paths that read none of the failed paths.
PgUnrelated(domain) ==
  {p \in PgDerivedPaths(domain) \ PgFailed(domain) :
     ReachFrom(domain, {p}, {}) \cap PgFailed(domain) = {}}
\* The same domain with every failing expression replaced by a literal.
PgRepaired(domain) ==
  [domain EXCEPT !.derived =
     [i \in DOMAIN @ |-> IF @[i].expr = PgFailing
                          THEN [@[i] EXCEPT !.expr = Lit(Null)] ELSE @[i]]]
PgRepairedChanges ==
  Propagate(BuildDependencyGraph(PgRepaired(pgIn.domain)), <<pgIn.path>>,
            SetValueByPath(PgCreated(PgRepaired(pgIn.domain)), pgIn.path,
                           pgIn.value, 0), 0).changes.val

\* C11 -- Error isolation: a derived node whose evaluation fails during
\* Propagate is recorded once in errors with its path, the walk goes on,
\* and every affected derived path that reads none of the failed paths is
\* recorded in changes exactly as in the propagation of the same write over
\* the domain without the failing expressions.
ErrorIsolation ==
  pgOut.pc = "done" =>
    /\ {pgOut.errors[i].path : i \in DOMAIN pgOut.errors}
         = PgFailed(pgIn.domain) \cap PgAffected(pgIn.domain, pgIn.path)
    /\ \A i, j \in DOMAIN pgOut.errors :
         pgOut.errors[i].path = pgOut.errors[j].path => i = j
    /\ \A i \in DOMAIN pgOut.errors : IsThrown(pgOut.errors[i].error)
    /\ \A p \in PgUnrelated(pgIn.domain) \cap PgAffected(pgIn.domain, pgIn.path) :
         /\ (p \in DOMAIN pgOut.changes.val) = (p \in DOMAIN PgRepairedChanges)
         /\ p \in DOMAIN pgOut.changes.val
              => pgOut.changes.val[p] = PgRepairedChanges[p]

\* derived.a failed on a write of data.n, and derived.c, which reads only
\* data.n, was recomputed after it and recorded.
ErrorIsolationWitness ==
  /\ pgOut.pc = "done"
  /\ pgIn.path = W_n
  /\ PgExprOf(pgIn.domain, P_a) = PgFailing
  /\ \E i \in DOMAIN pgOut.errors : pgOut.errors[i].path = P_a
  /\ P_c \in PgUnrelated(pgIn.domain)
  /\ P_c \in DOMAIN pgOut.changes.val
  /\ pgOut.changes.val[P_c] = Num(5)


\* Full recompute: every derived path re-evaluated in topological order
\* over the snapshot, each reading the values computed before it; a path
\* whose evaluation fails keeps its value.
RECURSIVE FullRecompute(_, _, _, _)
FullRecompute(snapshot, order, domain, now) ==
  IF order = <<>> THEN snapshot
  ELSE FullRecompute(
         IF IsThrown(Evaluate(PgExprOf(domain, Head(order)),
                              CreateEvaluationContext(snapshot), now))
         THEN snapshot
         ELSE [snapshot EXCEPT !.derived =
                 Put(@, Tail(Head(order)),
                     Evaluate(PgExprOf(domain, Head(order)),
                              CreateEvaluationContext(snapshot), now))],
         Tail(order), domain, now)
\* derived.b reads at most derived.a, derived.c at most derived.a and
\* derived.b: the declaration order is a topological order.
PgTopologicalOrder == <<P_a, P_b, P_c>>
PgAccepted ==
  ValidateWriteOperation(pgIn.snapshot, pgIn.path, pgIn.value, pgIn.domain,
                         0).valid

\* C17 -- Incremental propagation equals a full recompute: after an
\* accepted write to a data path of an acyclic domain, the derived state
\* after Propagate over the affected order is the derived state obtained
\* by re-evaluating every derived path in topological order.
IncrementalEqualsFull ==
  (pgOut.pc = "done" /\ PgAccepted /\ ~HasDependencyCycle(pgIn.domain)) =>
    \A p \in PgDerivedPaths(pgIn.domain) :
      GetValueByPath(pgOut.after, p)
        = GetValueByPath(
            FullRecompute(SetValueByPath(pgIn.snapshot, pgIn.path,
                                         pgIn.value, 0),
                          PgTopologicalOrder, pgIn.domain, 0), p)

\* ================================================= Parallel (7.6.1 step g)
\* A Parallel effect run step by step: the map over the children, the
\* settling of each pending child promise, and the continuation of the
\* await on Promise.all / Promise.race.
ParallelEffect(effects, waitAll) ==
  Effect("Parallel", <<>>, Lit(Bool(waitAll)), "", effects)
\* A Parallel effect written without the optional waitAll field.
ParallelOmitted(effects) ==
  Effect("Parallel", <<>>, Lit(Undef), "", effects)
Indices(n) == [i \in 1..n |-> i]

\* A RunEffect call that reaches an await on the handler's promise or on a
\* timer: its promise is still pending when the call returns.
RECURSIVE Suspends(_, _)
Suspends(effect, config) ==
  CASE effect.tag = "Delay" -> TRUE
    [] effect.tag = "ApiCall" ->
         ~IsThrown(EvaluateIfExpression(effect.expr, config.context,
                                        config.now))
    [] effect.tag = "Sequence" ->
         \E i \in DOMAIN effect.kids :
           /\ Suspends(effect.kids[i], config)
           /\ \A j \in 1..(i - 1) :
                RunEffect(effect.kids[j], config).result.t = "ok"
    [] OTHER -> FALSE

RECURSIVE StartCalls(_, _)
StartCalls(kids, config) ==
  IF kids = <<>> THEN <<>>
  ELSE RunEffect(Head(kids), config).calls \o StartCalls(Tail(kids), config)

\* effects.map(e => RunEffect(e, config)): every child is called, in array
\* order; a child that reaches no await has settled when the map is over.
ParallelMap(effect, config) ==
  [pc |-> "awaiting",
   status |-> [i \in DOMAIN effect.kids |->
                 IF Suspends(effect.kids[i], config) THEN "pending"
                 ELSE "settled"],
   order |-> SelectSeq(Indices(Len(effect.kids)),
                       LAMBDA i : ~Suspends(effect.kids[i], config)),
   calls |-> StartCalls(effect.kids, config),
   result |-> Ok(Undef),
   unsettled |-> {}]

\* "Return first Err or Ok(all values)" over the results in array order.
FirstErrOrAll(outcomes) ==
  LET errs == SelectSeq(Indices(Len(outcomes)),
                        LAMBDA i : outcomes[i].t = "err")
  IN IF errs # <<>> THEN outcomes[Head(errs)]
     ELSE Ok(Arr([i \in DOMAIN outcomes |-> outcomes[i].v]))

\* Promise.all: rejected with the reason of the first promise that rejects,
\* fulfilled with all values once every promise is fulfilled.  order lists
\* the promises settled so far in the order they settled.
PromiseAll(outcomes, order) ==
  LET rejected == SelectSeq(order, LAMBDA i : outcomes[i].t = "throw")
  IN IF rejected # <<>>
     THEN [settled |-> TRUE, result |-> outcomes[Head(rejected)]]
     ELSE [settled |-> Len(order) = Len(outcomes),
           result |-> FirstErrOrAll(outcomes)]
\* Promise.race: settles as the first promise that settles.
PromiseRace(outcomes, order) ==
  [settled |-> order # <<>>,
   result |-> IF order = <<>> THEN Ok(Undef) ELSE outcomes[Head(order)]]

ParLeaves ==
  {ApiCallEffect(EP_a), ApiCallEffect(EP_b), SetValueEffect(P_x, Lit(Num(1))),
   SetValueEffect(P_x, Op1("bogus", Lit(Num(1)))),
   SequenceEffect(<<ApiCallEffect(EP_a),
                    SetValueEffect(P_x, Op1("bogus", Lit(Num(1))))>>)}
MaxPar == 3            \* most children of a Parallel explored
ParEffects ==
  {ParallelEffect(kids, w) :
     kids \in UNION {[1..n -> ParLeaves] : n \in 0..MaxPar},
     w \in BOOLEAN}
    \cup {ParallelOmitted(kids) :
            kids \in UNION {[1..n -> ParLeaves] : n \in 0..MaxPar}}
\* apiCall rejects for the endpoint EP_b.
ParHandler == [rejects |-> {EP_b.lit}, throwing |-> {}]
ParConfig ==
  [handler |-> parIn.handler,
   context |-> CreateEvaluationContext(CreateSnapshot(EmptyObj, EmptyObj, 0)),
   now |-> 0]
ParKids == parIn.effect.kids
\* "If {effect}.waitAll": the truthiness of the field.
ParWaitAll == Truthy(parIn.effect.expr.lit)
\* The results the children's promises settle with.
ParOutcomes ==
  [i \in DOMAIN ParKids |-> RunEffect(ParKids[i], ParConfig).result]

ParInit ==
  /\ clock = 0
  /\ parIn \in [effect : ParEffects, handler : {ParHandler}]
  /\ par = NotStarted
  /\ SnapIdle /\ EvalIdle /\ FxIdle /\ GraphIdle /\ RtIdle /\ PgIdle /\ FnIdle

\* Step g.i: the map starts every child.
ParStart ==
  /\ par.pc = "idle"
  /\ par' = ParallelMap(parIn.effect, ParConfig)
  /\ UNCHANGED <<clock, parIn, snapVars, evalVars, fxVars, graphVars, rtVars,
                 pgVars, fnVars>>

\* A pending child's promise settles.
ParSettle ==
  /\ par.pc \in {"awaiting", "returned"}
  /\ \E i \in DOMAIN par.status :
       /\ par.status[i] = "pending"
       /\ par' = [par EXCEPT !.status[i] = "settled",
                             !.order = Append(@, i)]
  /\ UNCHANGED <<clock, parIn, snapVars, evalVars, fxVars, graphVars, rtVars,
                 pgVars, fnVars>>

\* The continuation of "await Promise.all(promises)" (g.ii) or
\* "await Promise.race(promises)" (g.iii): RunEffect's own promise settles.
ParAwaited(all, race) == IF ParWaitAll THEN all ELSE race
ParReturn ==
  /\ par.pc = "awaiting"
  /\ ParAwaited(PromiseAll(ParOutcomes, par.order),
                PromiseRace(ParOutcomes, par.order)).settled
  /\ par' = [par EXCEPT
               !.pc = "returned",
               !.result = ParAwaited(PromiseAll(ParOutcomes, par.order),
                                     PromiseRace(ParOutcomes, par.order)).result,
               !.unsettled = {i \in DOMAIN par.status :
                                par.status[i] = "pending"}]
  /\ UNCHANGED <<clock, parIn, snapVars, evalVars, fxVars, graphVars, rtVars,
                 pgVars, fnVars>>

ParNext == ParStart \/ ParSettle \/ ParReturn
SpecParallel == ParInit /\ [][ParNext]_vars

\* The children that failed, by an Err result or by an exception.
ParFailedKids == {i \in DOMAIN ParKids : ParOutcomes[i].t # "ok"}
ParFirstFailed == CHOOSE i \in ParFailedKids : \A j \in ParFailedKids : i <= j

\* C12 -- Parallel with waitAll = true has started every child once it
\* awaits, its result is observed only when every child has settled, also
\* when a child fails, and the result is the first failure in child order
\* if a child failed and otherwise a success carrying all children's values.
ParallelWaitsForAll ==
  (par.pc # "idle" /\ parIn.effect.expr.lit = Bool(TRUE)) =>
    /\ DOMAIN par.status = DOMAIN ParKids
    /\ \A i \in DOMAIN ParKids : par.status[i] \in {"pending", "settled"}
    /\ par.pc = "returned" =>
         /\ par.unsettled = {}
         /\ par.result = IF ParFailedKids # {}
                         THEN ParOutcomes[ParFirstFailed]
                         ELSE Ok(Arr([i \in DOMAIN ParKids |->
                                        ParOutcomes[i].v]))

\* C28 -- A Parallel effect whose waitAll field is omitted behaves as
\* waitAll = true, the documented default: RunEffect returns only when all
\* children have completed, not when the first child settles.
OmittedWaitAllWaits ==
  (/\ par.pc = "returned"
   /\ parIn.effect.expr.lit = Undef
   /\ \A i \in DOMAIN ParKids : ParOutcomes[i].t # "throw")
    => /\ par.unsettled = {}
       /\ par.result = FirstErrOrAll(ParOutcomes)

\* ===================================================== runtime facade (7.7)
\* The runtime of the search domain with actions, used through its facade:
\* set, execute, the unsubscribe functions, dispose, and the timers and
\* promises of its async node.  Seven listeners are subscribed after
\* createRuntime:
\*   s3  snapshot listener that sets data.price to 200 whenever it is not
\*   s1  snapshot listener that unsubscribes s2 once data.price is 200
\*   s2  snapshot listener
\*   p1  path listener of derived.total
\*   w1  path listener of the pattern data.*
\*   e0  event listener of "saved" that unsubscribes e1
\*   e1  event listener of "saved"
F_submitted == <<"state", "submitted">>
F_saved == <<"saved">>
F_dataAll == <<"data", "*">>
FcActions ==
  ("submit" :>
     [preconditions |-> <<ConditionRef(R_loading, "false"),
                          ConditionRef(R_q, "true")>>,
      effect |-> SequenceEffect(
                   <<SetStateEffect(F_submitted, Lit(Bool(TRUE))),
                     EmitEventEffect("saved", Str("ok"))>>),
      hasInput |-> FALSE,
      input |-> [isObject |-> FALSE, hasMin |-> FALSE, min |-> 0]])
  @@ ("ping" :>
     [preconditions |-> <<>>,
      effect |-> EmitEventEffect("saved", Str("ping")),
      hasInput |-> TRUE,
      input |-> [isObject |-> FALSE, hasMin |-> FALSE, min |-> 0]])
FcDomain ==
  [sources |-> RtDomain.sources, derived |-> RtDomain.derived,
   async |-> RtDomain.async, invariants |-> RtDomain.invariants,
   initialState |-> RtDomain.initialState, actions |-> FcActions]

FcSubscriptions ==
  <<Subscription("snapshot", <<>>, "s3"), Subscription("snapshot", <<>>, "s1"),
    Subscription("snapshot", <<>>, "s2"), Subscription("path", R_total, "p1"),
    Subscription("path", F_dataAll, "w1"),
    Subscription("event", F_saved, "e0"), Subscription("event", F_saved, "e1")>>
SubscriptionOf(listener) ==
  FcSubscriptions[CHOOSE i \in DOMAIN FcSubscriptions :
                    FcSubscriptions[i].listener = listener]
Quiet ==
  [do |-> "none", when |-> Lit(Bool(TRUE)), sub |-> FcSubscriptions[1],
   path |-> <<>>, value |-> Undef]
FcBehaviour ==
  [l \in {"s1", "s2", "s3", "p1", "w1", "e0", "e1"} |->
     CASE l = "s3" ->
            [Quiet EXCEPT !.do = "set",
                          !.when = Op2("!=", Get(R_price), Lit(Num(200))),
                          !.path = R_price, !.value = Num(200)]
       [] l = "s1" ->
            [Quiet EXCEPT !.do = "unsubscribe",
                          !.when = Op2("==", Get(R_price), Lit(Num(200))),
                          !.sub = SubscriptionOf("s2")]
       [] l = "e0" ->
            [Quiet EXCEPT !.do = "unsubscribe", !.sub = SubscriptionOf("e1")]
       [] OTHER -> Quiet]
\* The unsubscribe functions the client calls itself.
FcUnsubscribes == {SubscriptionOf(l) : l \in {"s3", "p1"}}

MaxNotified == 4          \* set and execute stop after this many notifications
MaxExecutions == 2        \* timers stop firing after this many async executions
FcWithinBounds == runtime.notified < MaxNotified
FcWrites == {<<R_price, Num(200)>>, <<R_q, Num(5)>>, <<R_q, Num(2)>>}
FcExecutes ==
  {<<"submit", Undef>>, <<"ping", Undef>>, <<"ping", Str("x")>>,
   <<"nope", Undef>>}
FcEnv ==
  [graph |-> RtGraph, handler |-> NoHandler, now |-> clock,
   domain |-> FcDomain, behaviour |-> FcBehaviour]
\* The log and the handler calls are those of the operation in progress.
BeginOp(rt) == [rt EXCEPT !.log = <<>>, !.effectCalls = <<>>]

RECURSIVE SubscribeAll(_, _)
SubscribeAll(rt, subs) ==
  IF subs = <<>> THEN rt
  ELSE SubscribeAll(
         CASE Head(subs).kind = "snapshot" -> Subscribe(rt, Head(subs).listener)
           [] Head(subs).kind = "path" ->
                SubscribePath(rt, Head(subs).key, Head(subs).listener)
           [] OTHER -> SubscribeEvents(rt, Head(subs).key, Head(subs).listener),
         Tail(subs))
IsSubscribed(rt, sub) == sub.listener \in SeqToSet(CollectionOf(rt, sub))

FcInit ==
  /\ clock = 0
  /\ runtime = SubscribeAll(CreateRuntime(FcDomain, RtInitialData, 0),
                            FcSubscriptions)
  /\ lastOp = [op |-> "create", path |-> <<>>, ok |-> TRUE, code |-> ""]
  /\ SnapIdle /\ EvalIdle /\ FxIdle /\ GraphIdle /\ PgIdle /\ ParIdle /\ FnIdle

FcOthers == <<clock, snapVars, evalVars, fxVars, graphVars, pgVars, parVars,
             fnVars>>

\* runtime.set(path, value)
FcSet(path, value) ==
  /\ ~runtime.disposed
  /\ FcWithinBounds
  /\ LET r == SetValue(BeginOp(runtime), FcEnv, FcDomain, path, value)
     IN /\ runtime' = r.rt
        /\ lastOp' = [op |-> "set", path |-> path, ok |-> r.ok,
                      code |-> r.code]
  /\ UNCHANGED FcOthers

\* runtime.execute(actionId, input)
FcExecute(actionId, input) ==
  /\ ~runtime.disposed
  /\ FcWithinBounds
  /\ LET r == Execute(BeginOp(runtime), FcEnv, FcDomain, actionId, input)
     IN /\ runtime' = r.rt
        /\ lastOp' = [op |-> "execute", path |-> <<actionId>>,
                      ok |-> r.result.t = "ok", code |-> r.result.code]
  /\ UNCHANGED FcOthers

\* The client calls an unsubscribe function.
FcUnsubscribe(sub) ==
  /\ IsSubscribed(runtime, sub)
  /\ runtime' = Unsubscribe(BeginOp(runtime), sub)
  /\ lastOp' = [op |-> "unsubscribe", path |-> <<sub.listener>>, ok |-> TRUE,
                code |-> ""]
  /\ UNCHANGED FcOthers

\* runtime.dispose()
FcDispose ==
  /\ ~runtime.disposed
  /\ \E abandons \in BOOLEAN : runtime' = Dispose(BeginOp(runtime), abandons)
  /\ lastOp' = [op |-> "dispose", path |-> <<>>, ok |-> TRUE, code |-> ""]
  /\ UNCHANGED FcOthers

\* A debounce timer expires and its callback runs.
FcTimerFire ==
  \E t \in runtime.timers :
    /\ runtime.executions < MaxExecutions
    /\ clock >= t.due
    /\ runtime' = ExecuteAsyncWithCondition(
                     [BeginOp(runtime) EXCEPT !.timers = @ \ {t}], FcEnv,
                     t.path, RtGraph.defn[t.path], t.context)
    /\ lastOp' = [op |-> "fire", path |-> t.path, ok |-> TRUE, code |-> ""]
    /\ UNCHANGED FcOthers

\* The promise of an effect in flight settles.
FcSettle ==
  \E flight \in runtime.inflight :
    /\ runtime' = SettleAsyncTrigger(BeginOp(runtime), FcEnv, flight)
    /\ lastOp' = [op |-> "settle", path |-> flight.path, ok |-> TRUE,
                  code |-> ""]
    /\ UNCHANGED FcOthers

\* Time passes.
FcTick ==
  /\ clock < MaxTime
  /\ clock' = clock + 1
  /\ runtime' = BeginOp(runtime)
  /\ lastOp' = [op |-> "tick", path |-> <<>>, ok |-> TRUE, code |-> ""]
  /\ UNCHANGED <<snapVars, evalVars, fxVars, graphVars, pgVars, parVars, fnVars>>

FcSetAny == \E w \in FcWrites : FcSet(w[1], w[2])
FcExecuteAny == \E x \in FcExecutes : FcExecute(x[1], x[2])
FcUnsubscribeAny == \E sub \in FcUnsubscribes : FcUnsubscribe(sub)
FcNext ==
  \/ FcSetAny
  \/ FcExecuteAny
  \/ FcUnsubscribeAny
  \/ FcDispose
  \/ FcTimerFire
  \/ FcSettle
  \/ FcTick
SpecFacade == FcInit /\ [][FcNext]_vars

\* The listener invocations of the latest operation, by position.
Calls == DOMAIN runtime.log
IsNotification(i) == runtime.log[i].kind \in {"snapshot", "path"}

\* C13 -- After an unsubscribe function has been called, its listener is
\* never invoked again, by no later notification or emitted event, also
\* when the unsubscribe function is called from inside another listener
\* while a notification is in progress.
NoCallAfterUnsubscribe ==
  \A i \in Calls : ~runtime.log[i].unsubscribed

\* s2 was unsubscribed by s1 from inside a notification and e1 by e0
\* while an event was emitted; a later set then notified s1 and the path
\* listeners, and s2 was not called.
NoCallAfterUnsubscribeWitness ==
  /\ lastOp.op = "set" /\ lastOp.ok
  /\ {"s2", "e1"} \subseteq runtime.gone
  /\ \E i, j \in Calls :
       /\ i < j
       /\ runtime.log[i].listener = "s1"
       /\ runtime.log[j].kind = "path"
  /\ \A i \in Calls : runtime.log[i].listener # "s2"

\* C14 -- After dispose() has returned no debounce timer fires its async
\* effect and no snapshot, path or event listener is invoked, also when a
\* timer was pending or an async effect was in flight when dispose was
\* called.
DisposeIsFinal ==
  [][runtime.disposed =>
       /\ runtime'.log = <<>>
       /\ runtime'.executions = runtime.executions
       /\ lastOp'.op # "fire"]_vars

\* C18 -- On a successful set each registered snapshot listener is called
\* exactly once with the snapshot of the set, before any path listener,
\* while getSnapshot() returns the snapshot passed; a path listener is
\* called only for a changed path that is its subscribed path or matches
\* its pattern.
NotificationContract ==
  (lastOp.op = "set" /\ lastOp.ok) =>
    /\ \A i \in Calls :
         runtime.log[i].kind = "snapshot" =>
           /\ runtime.log[i].isCurrent
           /\ \A j \in Calls :
                (/\ runtime.log[j].kind = "snapshot"
                 /\ runtime.log[j].listener = runtime.log[i].listener
                 /\ runtime.log[j].version = runtime.log[i].version) => i = j
           /\ \A j \in Calls :
                (/\ runtime.log[j].kind = "path"
                 /\ runtime.log[j].version = runtime.log[i].version) => i < j
    /\ \A l \in SeqToSet(runtime.snapshotListeners) :
         \E i \in Calls :
           /\ runtime.log[i].kind = "snapshot"
           /\ runtime.log[i].listener = l
           /\ runtime.log[i].version = runtime.current.version
    /\ \A i \in Calls :
         runtime.log[i].kind = "path" =>
           /\ runtime.log[i].path \in runtime.log[i].changed
           /\ \/ runtime.log[i].key = runtime.log[i].path
              \/ MatchesWildcard(runtime.log[i].path, runtime.log[i].key)

\* C19 -- Mutations are serialized: the notification of one mutation runs
\* to completion before the next mutation is applied, so every listener is
\* called while its snapshot is the current one and the notifications
\* arrive in the order of the mutations.
SerializedMutations ==
  /\ \A i \in Calls : IsNotification(i) => runtime.log[i].isCurrent
  /\ \A i, j \in Calls :
       (IsNotification(i) /\ IsNotification(j) /\ i < j)
         => runtime.log[i].version <= runtime.log[j].version

\* C20 -- Precondition gating: execute of an action with an unsatisfied
\* precondition returns PRECONDITIONS_NOT_MET, calls no handler method,
\* notifies nobody and leaves the snapshot as it was; the effect runs only
\* when CheckActionAvailability reports the action as available.
ExecutedAction == FcDomain.actions[lastOp'.path[1]]
AvailableBefore ==
  CheckActionAvailability(ExecutedAction,
                          CreateEvaluationContext(runtime.current)).available
PreconditionGating ==
  [][(lastOp'.op = "execute" /\ lastOp'.path[1] \in DOMAIN FcDomain.actions)
       => /\ ~AvailableBefore =>
               /\ ~lastOp'.ok
               /\ lastOp'.code = "PRECONDITIONS_NOT_MET"
               /\ runtime'.effectCalls = <<>>
               /\ runtime'.log = <<>>
               /\ runtime'.notified = runtime.notified
               /\ runtime'.current = runtime.current
          /\ runtime'.effectCalls # <<>> => AvailableBefore]_vars

\* submit was refused with its first precondition (not loading) satisfied
\* and its second (a query is set) not.
PreconditionGatingWitness ==
  /\ lastOp.op = "execute" /\ lastOp.path = <<"submit">>
  /\ lastOp.code = "PRECONDITIONS_NOT_MET"
  /\ GetValueByPath(runtime.current, R_loading) = Bool(FALSE)
  /\ GetValueByPath(runtime.current, R_q) = Num(0)

\* ------------------------------------------------- conditions and policies
\* EvaluateConditionList: the details of every condition and the reason of
\* the first unsatisfied one.  The reason variable starts as null and is
\* assigned while it is null; a condition without a reason assigns
\* undefined.
ReasonOf(condition) ==
  IF condition.hasReason THEN Str(condition.reason) ELSE Undef

ConditionDetail(condition, context) ==
  [condition |-> condition,
   actualValue |-> ContextGet(context, condition.path),
   satisfied |-> Truthy(ContextGet(context, condition.path))
                   = (condition.expect # "false")]

\* A loop that assigns the reason at every unsatisfied condition.
RECURSIVE FirstUnsatisfiedReason_Last(_, _, _)
FirstUnsatisfiedReason_Last(details, i, reason) ==
  IF i > Len(details) THEN reason
  ELSE FirstUnsatisfiedReason_Last(
         details, i + 1,
         IF ~details[i].satisfied
         THEN ReasonOf(details[i].condition) ELSE reason)
RECURSIVE FirstUnsatisfiedReason(_, _, _)
FirstUnsatisfiedReason(details, i, reason) ==
  IF i > Len(details) THEN reason
  ELSE FirstUnsatisfiedReason(
         details, i + 1,
         IF ~details[i].satisfied /\ reason = Null
         THEN ReasonOf(details[i].condition) ELSE reason)

ConditionListResult(details) ==
  [satisfied |-> \A i \in DOMAIN details : details[i].satisfied,
   reason |-> IF \A i \in DOMAIN details : details[i].satisfied
              THEN Undef
              ELSE FirstUnsatisfiedReason(details, 1, Null),
   details |-> details]

\* conditions is [present, items]: a list that may be left out.
EvaluateConditionList(conditions, context, defaultValue) ==
  IF ~conditions.present \/ conditions.items = <<>>
  THEN [satisfied |-> defaultValue, reason |-> Undef, details |-> <<>>]
  ELSE ConditionListResult(
         [i \in DOMAIN conditions.items |->
            ConditionDetail(conditions.items[i], context)])

FieldPolicyEvaluation(relevantResult, editableResult, requiredResult) ==
  [relevant |-> relevantResult.satisfied,
   relevantReason |-> relevantResult.reason,
   relevantConditions |-> relevantResult.details,
   editable |-> editableResult.satisfied,
   editableReason |-> editableResult.reason,
   editableConditions |-> editableResult.details,
   required |-> requiredResult.satisfied,
   requiredReason |-> requiredResult.reason,
   requiredConditions |-> requiredResult.details]

\* policy is [defined, relevantWhen, editableWhen, requiredWhen].  The
\* fields the source leaves out of a result are undefined / empty here.
EvaluateFieldPolicy(policy, context) ==
  IF ~policy.defined
  THEN [relevant |-> TRUE, relevantReason |-> Undef,
        relevantConditions |-> <<>>,
        editable |-> TRUE, editableReason |-> Undef,
        editableConditions |-> <<>>,
        required |-> FALSE, requiredReason |-> Undef,
        requiredConditions |-> <<>>]
  ELSE FieldPolicyEvaluation(
         EvaluateConditionList(policy.relevantWhen, context, TRUE),
         EvaluateConditionList(policy.editableWhen, context, TRUE),
         EvaluateConditionList(policy.requiredWhen, context, FALSE))

\* The snapshot the conditions are read from: a true flag, zero, the empty
\* string, an object, and a state path that is not there.
C_on == <<"data", "on">>
C_zero == <<"data", "zero">>
C_empty == <<"data", "empty">>
C_obj == <<"data", "obj">>
C_missing == <<"state", "missing">>
CondSnapshot ==
  CreateSnapshot(Obj(("on" :> Bool(TRUE)) @@ ("zero" :> Num(0))
                       @@ ("empty" :> Str("")) @@ ("obj" :> EmptyObj)),
                 EmptyObj, 0)
CondContext == CreateEvaluationContext(CondSnapshot)

MaxConds == 2
SeqsUpTo(S, n) == UNION {[1..k -> S] : k \in 0..n}

\* Preconditions of an action: every path, every expect, with and without
\* a reason.
Preconditions ==
  {ConditionRef(p, e) :
     p \in {C_on, C_zero, C_empty, C_obj, C_missing},
     e \in {"true", "false", "undefined"}}
    \cup {ConditionWithReason(p, e, "r1") :
            p \in {C_on, C_zero, C_empty, C_obj, C_missing},
            e \in {"true", "false", "undefined"}}

\* Conditions of a field policy: one satisfied by expect 'false', one
\* unsatisfied with a reason, one unsatisfied without.
PolicyConditions ==
  {ConditionWithReason(C_zero, "false", "s"),
   ConditionWithReason(C_zero, "undefined", "a"),
   ConditionRef(C_on, "false")}
ConditionLists ==
  {[present |-> FALSE, items |-> <<>>]}
    \cup {[present |-> TRUE, items |-> l] :
            l \in SeqsUpTo(PolicyConditions, MaxConds)}
Policies ==
  {[defined |-> FALSE, relevantWhen |-> [present |-> FALSE, items |-> <<>>],
    editableWhen |-> [present |-> FALSE, items |-> <<>>],
    requiredWhen |-> [present |-> FALSE, items |-> <<>>]]}
    \cup [defined : {TRUE}, relevantWhen : ConditionLists,
          editableWhen : ConditionLists, requiredWhen : ConditionLists]

CondInit ==
  /\ clock = 0
  /\ call \in {[fn |-> "CheckActionAvailability", conditions |-> cs] :
                 cs \in SeqsUpTo(Preconditions, MaxConds)}
               \cup {[fn |-> "EvaluateFieldPolicy", policy |-> p] :
                       p \in Policies}
  /\ ret = NotReturned
  /\ SnapIdle /\ EvalIdle /\ FxIdle /\ GraphIdle /\ RtIdle /\ PgIdle
  /\ ParIdle

CondOthers ==
  <<clock, call, snapVars, evalVars, fxVars, graphVars, rtVars, pgVars,
    parVars>>

CheckAvailability ==
  /\ call.fn = "CheckActionAvailability" /\ ret.pc = "idle"
  /\ ret' = [pc |-> "done",
             availability |->
               CheckActionAvailability([preconditions |-> call.conditions],
                                       CondContext)]
  /\ UNCHANGED CondOthers

EvaluatePolicy ==
  /\ call.fn = "EvaluateFieldPolicy" /\ ret.pc = "idle"
  /\ ret' = [pc |-> "done",
             evaluation |-> EvaluateFieldPolicy(call.policy, CondContext)]
  /\ UNCHANGED CondOthers

CondNext == CheckAvailability \/ EvaluatePolicy
SpecConditions == CondInit /\ [][CondNext]_vars

\* Whether the value at the condition's path, as a boolean, is what the
\* condition expects.
SatisfiedIn(snapshot, c) ==
  Truthy(GetValueByPath(snapshot, c.path)) = (c.expect # "false")
\* The positions of the unsatisfied conditions, in declaration order.
UnsatisfiedAt(conditions) ==
  SelectSeq([i \in DOMAIN conditions |-> i],
            LAMBDA i : ~SatisfiedIn(CondSnapshot, conditions[i]))
TemplatedReason(c) ==
  PathToString(c.path) \o " should be "
    \o (IF c.expect = "false" THEN "false" ELSE "true")
    \o ", but is "
    \o (IF Truthy(GetValueByPath(CondSnapshot, c.path))
        THEN "true" ELSE "false")

\* C21 -- CheckActionAvailability is available iff every precondition c
\* has Boolean(context.get(c.path)) = (c.expect != 'false'); otherwise
\* unsatisfiedConditions and reasons hold one entry per unsatisfied
\* condition, in declaration order, the reason being c.reason when given
\* and else '{path} should be {expected}, but is {actual}'.
AvailabilityContract ==
  (call.fn = "CheckActionAvailability" /\ ret.pc = "done") =>
    /\ ret.availability.available
         = (\A i \in DOMAIN call.conditions :
              SatisfiedIn(CondSnapshot, call.conditions[i]))
    /\ Len(ret.availability.unsatisfiedConditions)
         = Len(UnsatisfiedAt(call.conditions))
    /\ Len(ret.availability.reasons) = Len(UnsatisfiedAt(call.conditions))
    /\ \A k \in DOMAIN UnsatisfiedAt(call.conditions) :
         /\ ret.availability.unsatisfiedConditions[k].condition
              = call.conditions[UnsatisfiedAt(call.conditions)[k]]
         /\ ret.availability.reasons[k]
              = IF call.conditions[UnsatisfiedAt(call.conditions)[k]].hasReason
                THEN call.conditions[UnsatisfiedAt(call.conditions)[k]].reason
                ELSE TemplatedReason(
                       call.conditions[UnsatisfiedAt(call.conditions)[k]])

\* Two unsatisfied preconditions, the first without a reason and expecting
\* false of an object, the second with one.
AvailabilityContractWitness ==
  /\ call.fn = "CheckActionAvailability" /\ ret.pc = "done"
  /\ call.conditions = <<ConditionRef(C_obj, "false"),
                          ConditionWithReason(C_missing, "undefined", "r1")>>
  /\ ~ret.availability.available
  /\ ret.availability.reasons
       = <<"data.obj should be false, but is true", "r1">>

\* What a condition list of a policy has to evaluate to.
ListValue(list, defaultValue) ==
  IF ~list.present \/ list.items = <<>> THEN defaultValue
  ELSE \A i \in DOMAIN list.items : SatisfiedIn(CondSnapshot, list.items[i])
ListFails(list) ==
  list.present /\ UnsatisfiedAt(list.items) # <<>>
FirstFailing(list) == list.items[UnsatisfiedAt(list.items)[1]]

\* C22 -- EvaluateFieldPolicy evaluates relevantWhen, editableWhen and
\* requiredWhen each on its own: an absent or empty list gives its default
\* (true, true, false), a non-empty list gives true iff all its conditions
\* are satisfied, and the reason reported for an unsatisfied list is the
\* reason of its first unsatisfied condition.
FieldPolicyContract ==
  (call.fn = "EvaluateFieldPolicy" /\ ret.pc = "done") =>
    /\ ret.evaluation.relevant = ListValue(call.policy.relevantWhen, TRUE)
    /\ ret.evaluation.editable = ListValue(call.policy.editableWhen, TRUE)
    /\ ret.evaluation.required = ListValue(call.policy.requiredWhen, FALSE)
    /\ ListFails(call.policy.relevantWhen) =>
         ret.evaluation.relevantReason
           = ReasonOf(FirstFailing(call.policy.relevantWhen))
    /\ ListFails(call.policy.editableWhen) =>
         ret.evaluation.editableReason
           = ReasonOf(FirstFailing(call.policy.editableWhen))
    /\ ListFails(call.policy.requiredWhen) =>
         ret.evaluation.requiredReason
           = ReasonOf(FirstFailing(call.policy.requiredWhen))

\* relevantWhen absent, editableWhen with two unsatisfied conditions of
\* which the second has no reason, requiredWhen satisfied.
FieldPolicyContractWitness ==
  /\ call.fn = "EvaluateFieldPolicy" /\ ret.pc = "done"
  /\ call.policy.defined /\ ~call.policy.relevantWhen.present
  /\ call.policy.editableWhen.items
       = <<ConditionWithReason(C_zero, "undefined", "a"),
           ConditionRef(C_on, "false")>>
  /\ call.policy.requiredWhen.items
       = <<ConditionWithReason(C_zero, "false", "s")>>
  /\ ret.evaluation.relevant /\ ~ret.evaluation.editable
  /\ ret.evaluation.required
  /\ ret.evaluation.editableReason = Str("a")

\* ----------------------------------------------------- dependency extraction
X_age == <<"data", "age">>
X_tax == <<"data", "tax">>
X_item == <<"$", "price">>
MaxClauses == 1

\* Leaves, one operator application over the leaves, and the clauses built
\* from both.
ExLeaves ==
  {Get(X_age), Get(X_tax), Get(X_item), Lit(Num(1)), Lit(Str("child")),
   Lit(Str("get"))}
ExConditions == {Op2("<", Get(X_age), Lit(Num(13))), Lit(Bool(TRUE))}
ExClauses ==
  {Clause(c, r) : c \in ExLeaves \cup ExConditions,
                  r \in {Get(X_tax), Lit(Str("child"))}}
ExClauseLists == SeqsUpTo(ExClauses, MaxClauses)
ExConditionals ==
  {CaseExpr(cs, d) : cs \in ExClauseLists, d \in {Get(X_tax), Lit(Num(1))}}
    \cup {MatchExpr(Get(X_age), cs, Lit(Str("child"))) :
            cs \in ExClauseLists}
ExCollections ==
  {Op2(o, Get(X_tax), b) : o \in {"map", "filter"},
                           b \in {Get(X_item), Get(X_age),
                                  Op2("*", Get(X_item), Get(X_age))}}
    \cup {OpN("reduce", <<Get(X_tax), Op2("+", Get(<<"$acc">>), b),
                           Lit(Num(0))>>) : b \in {Get(X_item), Get(X_age)}}
ExExprs ==
  ExLeaves \cup ExConditionals \cup ExCollections
    \cup {Op2("+", a, b) : a \in ExLeaves, b \in ExConditionals}

ExInit ==
  /\ clock = 0
  /\ call \in {[fn |-> "ExtractPaths", expr |-> e] : e \in ExExprs}
  /\ ret = NotReturned
  /\ SnapIdle /\ EvalIdle /\ FxIdle /\ GraphIdle /\ RtIdle /\ PgIdle
  /\ ParIdle

Extract ==
  /\ call.fn = "ExtractPaths" /\ ret.pc = "idle"
  /\ ret' = [pc |-> "done", paths |-> ExtractPaths(call.expr)]
  /\ UNCHANGED CondOthers

ExNext == Extract
SpecExtract == ExInit /\ [][ExNext]_vars

\* The non-built-in targets of the get expressions of a tree, at every
\* position: operands, clause conditions and patterns, clause results,
\* defaults and the bodies of map, filter and reduce.
RECURSIVE GetTargets(_)
GetTargets(expr) ==
  IF expr.op = "lit" THEN {}
  ELSE IF expr.op = "get" THEN
     (IF Head(expr.path) \in {"$", "$index", "$acc"} THEN {}
      ELSE {expr.path})
  ELSE UNION {GetTargets(expr.args[i]) : i \in DOMAIN expr.args}

\* C23 -- extractPaths(expr) is exactly the set of non-built-in paths that
\* are the target of a get anywhere in the expression tree, the condition
\* and result positions of case/match clauses and the bodies of
\* map/filter/reduce included, and holds no path that begins with '$'.
ExtractsEveryGet ==
  (call.fn = "ExtractPaths" /\ ret.pc = "done") =>
    /\ ret.paths = GetTargets(call.expr)
    /\ \A p \in ret.paths : Head(p) \notin {"$", "$index", "$acc"}

\* ------------------------------------------------------ batch execution
\* A batch effect is [type, path, value] with type set, patch or append.
\* ApplyEffect gives [error, snapshot]; error "" is success.
\*   set     replaces the value at path; the parent has to exist
\*   patch   shallow-merges value into the object at path
\*   append  appends value to the array at path
BatchEffect(type, path, value) ==
  [type |-> type, path |-> path, value |-> value]
Applied(snapshot) == [error |-> "", snapshot |-> snapshot]
Rejected(working, error) == [error |-> error, snapshot |-> working]
WriteData(working, path, value) ==
  [working EXCEPT !.data = SetNestedValue(@, Tail(path), value)]
ParentOf(path) == SubSeq(path, 1, Len(path) - 1)

ApplySet(working, effect) ==
  IF GetValueByPath(working, ParentOf(effect.path)).k # "obj"
  THEN Rejected(working, "PARENT_MISSING")
  ELSE Applied(WriteData(working, effect.path, effect.value))
ApplyPatch(working, effect, target) ==
  IF target.k # "obj" THEN Rejected(working, "NOT_AN_OBJECT")
  ELSE Applied(WriteData(working, effect.path,
                         Obj(effect.value.o @@ target.o)))
ApplyAppend(working, effect, target) ==
  IF target.k # "arr" THEN Rejected(working, "NOT_AN_ARRAY")
  ELSE Applied(WriteData(working, effect.path,
                         Arr(Append(target.o, effect.value))))
ApplyEffect(working, effect) ==
  CASE effect.type = "set" -> ApplySet(working, effect)
    [] effect.type = "patch" ->
         ApplyPatch(working, effect, GetValueByPath(working, effect.path))
    [] effect.type = "append" ->
         ApplyAppend(working, effect, GetValueByPath(working, effect.path))
    [] OTHER -> Rejected(working, "UNKNOWN_EFFECT")

\* The loop of Execute.  input is the content of the caller's snapshot
\* object, working the content of the working object; aliased says that
\* they are one object (working := snapshot), and inPlace that ApplyEffect
\* writes into the object it is given rather than into a fresh one.
BatchSuccess(working, input, aliased, inPlace) ==
  [status |-> "success", snapshot |-> working, error |-> "",
   input |-> IF aliased /\ inPlace THEN working ELSE input]
RECURSIVE ExecuteLoop(_, _, _, _, _, _, _)
ExecuteStep(result, effects, input, working, aliased, transactional, inPlace, domain) ==
  IF result.error # ""
  THEN IF transactional
       THEN [status |-> "failure", snapshot |-> input,
             error |-> result.error, input |-> input]
       ELSE [status |-> "partial-failure", snapshot |-> working,
             error |-> result.error, input |-> input]
  ELSE ExecuteLoop(Tail(effects),
                   IF aliased /\ inPlace THEN result.snapshot ELSE input,
                   result.snapshot, aliased /\ inPlace, transactional,
                   inPlace, domain)
ExecuteLoop(effects, input, working, aliased, transactional, inPlace, domain) ==
  IF effects = <<>>
  THEN BatchSuccess(FullRecompute(working, PgTopologicalOrder, domain, 0),
                    input, aliased, inPlace)
  ELSE ExecuteStep(ApplyEffect(working, Head(effects)), effects, input,
                   working, aliased, transactional, inPlace, domain)

\* Execute that works on the caller's snapshot also when transactional.
ExecuteBatch_NoCopy(effects, snapshot, transactional, inPlace, domain) ==
  ExecuteLoop(effects, snapshot, snapshot, TRUE, transactional, inPlace,
              domain)
\* Execute(effects, snapshot, transactional): working is a deep copy when
\* transactional and the snapshot itself otherwise.
ExecuteBatch(effects, snapshot, transactional, inPlace, domain) ==
  ExecuteLoop(effects, snapshot, snapshot, ~transactional, transactional,
              inPlace, domain)

B_items == <<"data", "items">>
B_age == <<"data", "user", "age">>
B_deep == <<"data", "nowhere", "k">>
BtDomain ==
  PgDomain(Op2("+", Get(W_n), Lit(Num(1))), Get(P_a), Lit(Num(0)))
BtSnapshot ==
  CreatedSnapshot(
    BuildDependencyGraph(BtDomain),
    CreateSnapshot(Obj(("n" :> Num(1)) @@ ("user" :> Obj("name" :> Str("a")))
                         @@ ("items" :> Arr(<<Num(1)>>))),
                   EmptyObj, 0),
    0)
BtSucceeding ==
  {BatchEffect("set", W_n, Num(2)),
   BatchEffect("set", W_name, Str("b")),
   BatchEffect("patch", W_user, Obj("age" :> Num(3))),
   BatchEffect("append", B_items, Num(2))}
BtFailing ==
  {BatchEffect("set", B_deep, Num(1)),
   BatchEffect("patch", W_n, Obj("age" :> Num(3))),
   BatchEffect("append", W_user, Num(2))}
MaxBatch == 3
Batches == SeqsUpTo(BtSucceeding \cup BtFailing, MaxBatch)

BtInit ==
  /\ clock = 0
  /\ call \in [fn : {"Execute"}, effects : Batches, snapshot : {BtSnapshot},
                transactional : BOOLEAN, inPlace : BOOLEAN]
  /\ ret = NotReturned
  /\ SnapIdle /\ EvalIdle /\ FxIdle /\ GraphIdle /\ RtIdle /\ PgIdle
  /\ ParIdle

RunBatch ==
  /\ call.fn = "Execute" /\ ret.pc = "idle"
  /\ ret' = [pc |-> "done",
             result |-> ExecuteBatch(call.effects, call.snapshot,
                                     call.transactional, call.inPlace,
                                     BtDomain)]
  /\ UNCHANGED CondOthers

BtNext == RunBatch
SpecBatch == BtInit /\ [][BtNext]_vars

Has(effects, e) == \E i \in DOMAIN effects : effects[i] = e
Count(effects, e) == Cardinality({i \in DOMAIN effects : effects[i] = e})
\* What a reader of the returned snapshot sees of an effect of the batch.
Visible(snapshot, effects, e) ==
  CASE e.type = "set" -> GetValueByPath(snapshot, e.path) = e.value
    [] e.type = "patch" ->
         \A key \in DOMAIN e.value.o :
           GetValueByPath(snapshot, Append(e.path, key)) = e.value.o[key]
    [] e.type = "append" ->
         GetValueByPath(snapshot, e.path)
           = Arr(<<Num(1)>> \o [i \in 1..Count(effects, e) |-> e.value])

\* C25 -- A transactional batch is all-or-nothing: when an effect of the
\* batch fails, at any position, the returned snapshot is the pre-batch
\* snapshot with none of the batch's effects visible; when all succeed,
\* all of them are visible in the returned snapshot.
AllOrNothing ==
  (call.fn = "Execute" /\ ret.pc = "done" /\ call.transactional) =>
    IF \E e \in BtFailing : Has(call.effects, e)
    THEN /\ ret.result.status = "failure"
         /\ ret.result.snapshot = BtSnapshot
         /\ ret.result.input = BtSnapshot
    ELSE /\ ret.result.status = "success"
         /\ \A e \in BtSucceeding :
              Has(call.effects, e) => Visible(ret.result.snapshot,
                                              call.effects, e)
         /\ GetValueByPath(ret.result.snapshot, P_a)
              = IF Has(call.effects, BatchEffect("set", W_n, Num(2)))
                THEN Num(3) ELSE Num(2)

\* The third effect of a transactional batch failed after two effects had
\* been applied, with an ApplyEffect that writes in place.
AllOrNothingWitness ==
  /\ call.fn = "Execute" /\ ret.pc = "done"
  /\ call.transactional /\ call.inPlace
  /\ call.effects = <<BatchEffect("set", W_n, Num(2)),
                       BatchEffect("append", B_items, Num(2)),
                       BatchEffect("patch", W_n, Obj("age" :> Num(3)))>>
  /\ ret.result.status = "failure"
  /\ ret.result.error = "NOT_AN_OBJECT"
  /\ GetValueByPath(ret.result.snapshot, W_n) = Num(1)

\* ------------------------------------------------------- set/get round trip
T_count == <<"data", "count">>
T_name == <<"data", "user", "name">>
T_age == <<"data", "user", "age">>
T_new == <<"data", "a", "b">>
T_first == <<"data", "items", "0">>
T_next == <<"data", "items", "1">>
T_rate == <<"data", "metrics", "conversion.rate">>
T_flag == <<"state", "flag">>
T_total == <<"derived", "total">>
T_below == <<"data", "count", "x">>
RoundTripPaths ==
  {T_count, T_name, T_age, T_new, T_first, T_next, T_rate, T_flag, T_total,
   T_below}
RoundTripValues ==
  {Null, Bool(FALSE), Num(2), Str("a"), Obj("k" :> Num(1)),
   Arr(<<Num(1), Str("b")>>)}
RoundTripSnapshots ==
  {CreateSnapshot(EmptyObj, EmptyObj, 0),
   CreateSnapshot(Obj(("count" :> Num(1))
                        @@ ("user" :> Obj("name" :> Str("a")))
                        @@ ("items" :> Arr(<<Num(1)>>))),
                  Obj("flag" :> Bool(TRUE)), 0)}

RoundTripInit ==
  /\ clock = 0
  /\ call \in [fn : {"SetValueByPath"}, snapshot : RoundTripSnapshots,
                path : RoundTripPaths, value : RoundTripValues]
  /\ ret = NotReturned
  /\ SnapIdle /\ EvalIdle /\ FxIdle /\ GraphIdle /\ RtIdle /\ PgIdle
  /\ ParIdle

\* result = SetValueByPath(S, p, v), then GetValueByPath(result, p)
SetThenGet ==
  /\ call.fn = "SetValueByPath" /\ ret.pc = "idle"
  /\ ret' = [pc |-> "done",
             read |-> GetValueByPath(
                        SetValueByPath(call.snapshot, call.path, call.value,
                                       clock),
                        call.path)]
  /\ UNCHANGED CondOthers

RoundTripNext == SetThenGet
SpecRoundTrip == RoundTripInit /\ [][RoundTripNext]_vars

\* C27 -- Set/get round trip: for every snapshot S, every data, state or
\* derived path p (identifier, index and string-key segments, intermediate
\* keys present or missing) and every JSON value v,
\* GetValueByPath(SetValueByPath(S, p, v), p) is structurally equal to v.
RoundTrip ==
  (call.fn = "SetValueByPath" /\ ret.pc = "done")
    => DeepEqual(ret.read, call.value)

\* ------------------------------------------------------------ quiescence
\* C29 -- Quiescence: the writes the async effect makes to its own
\* resultPath, loadingPath and errorPath, when it starts (a timer fires) or
\* completes (its promise settles), do not trigger the async node again: no
\* such step leaves a debounce timer that was not pending before it.
OwnWritesDoNotRetrigger ==
  [][lastOp'.op \in {"fire", "settle"}
       => runtime'.timers \subseteq runtime.timers]_vars

\* ------------------------------------------------------------ loading flag
\* A runtime whose async node is either the search of RtDomain, triggered
\* while data.q >= 3, or the same search guarded by its own loading flag
\* (condition ['all', ['>=', q, 3], ['!', loading]]); the clients write
\* data.q, timers expire, promises settle and time passes.
LoadingGuard ==
  OpN("all", <<Op2(">=", Get(R_q), Lit(Num(3))), Op1("!", Get(R_loading))>>)
LdDomain(guarded) ==
  [RtDomain EXCEPT !.async[1].condition =
                      IF guarded THEN LoadingGuard ELSE @]
GuardedGraph == BuildDependencyGraph(LdDomain(TRUE))
LdEnv(h) ==
  [graph |-> IF call.guarded THEN GuardedGraph ELSE RtGraph, handler |-> h,
   now |-> clock, domain |-> LdDomain(call.guarded), behaviour |-> <<>>]
LdWrites == {R_q} \X {Num(0), Num(4), Num(5)}
\* The clients write while the version is below MaxVersion and the clock
\* below MaxTime; the runtime's own steps go on until the version reaches
\* MaxDrained, so that what the last write started can run to its end.
MaxDrained == 32
LdOthers ==
  <<clock, snapVars, evalVars, fxVars, graphVars, pgVars, parVars, fnVars>>

LdInit ==
  /\ clock = 0
  /\ call \in {[fn |-> "createRuntime", guarded |-> g] : g \in BOOLEAN}
  /\ ret = NotReturned
  /\ runtime = CreateRuntime(LdDomain(call.guarded), RtInitialData, 0)
  /\ lastOp = [op |-> "create", path |-> <<>>, ok |-> TRUE, code |-> ""]
  /\ SnapIdle /\ EvalIdle /\ FxIdle /\ GraphIdle /\ PgIdle /\ ParIdle

\* runtime.set(path, value)
LdSet(path, value) ==
  /\ runtime.current.version < MaxVersion
  /\ clock < MaxTime
  /\ LET r == SetValue(runtime, LdEnv(NoHandler), LdDomain(call.guarded),
                       path, value)
     IN /\ runtime' = r.rt
        /\ lastOp' = [op |-> "set", path |-> path, ok |-> r.ok,
                      code |-> r.code]
  /\ UNCHANGED LdOthers

\* A debounce timer expires and its callback runs.
LdFire ==
  \E t \in runtime.timers, h \in RtHandlers :
    /\ runtime.current.version < MaxDrained
    /\ clock >= t.due
    /\ runtime' = ExecuteAsyncWithCondition(
                     [runtime EXCEPT !.timers = @ \ {t}], LdEnv(h), t.path,
                     LdEnv(h).graph.defn[t.path], t.context)
    /\ lastOp' = [op |-> "fire", path |-> t.path, ok |-> TRUE, code |-> ""]
    /\ UNCHANGED LdOthers

\* The promise of an effect in flight settles.
LdSettle ==
  \E flight \in runtime.inflight :
    /\ runtime.current.version < MaxDrained
    /\ runtime' = SettleAsyncTrigger(runtime, LdEnv(NoHandler), flight)
    /\ lastOp' = [op |-> "settle", path |-> flight.path, ok |-> TRUE,
                  code |-> ""]
    /\ UNCHANGED LdOthers

LdNext ==
  \/ \E w \in LdWrites : LdSet(w[1], w[2])
  \/ LdFire
  \/ LdSettle
  \/ RtTick
\* The guards of LdFire and LdSettle.
CanFire ==
  \E t \in runtime.timers :
    runtime.current.version < MaxDrained /\ clock >= t.due
CanSettle == runtime.inflight # {} /\ runtime.current.version < MaxDrained
\* Time passes, expired timers run their callback and the handler's calls
\* terminate; what the clients write is up to them.  The weak fairness of
\* LdFire and of LdSettle is written with their guards, which is what
\* ENABLED <<LdFire>>_vars and ENABLED <<LdSettle>>_vars come to (both
\* actions take an element out of runtime.timers or runtime.inflight).
SpecLoading ==
  /\ LdInit
  /\ [][LdNext]_vars
  /\ WF_vars(RtTick)
  /\ (([]<>~CanFire) \/ ([]<><<LdFire>>_vars))
  /\ (([]<>~CanSettle) \/ ([]<><<LdSettle>>_vars))

LoadingFlag == GetValueByPath(runtime.current, R_loading)
\* A step of the runtime is held back by a bound of the model: a timer is
\* due after MaxTime, or the version has reached MaxDrained with a timer or
\* a call still pending.
Horizon ==
  \/ \E t \in runtime.timers : t.due > MaxTime
  \/ /\ runtime.current.version >= MaxDrained
     /\ runtime.timers # {} \/ runtime.inflight # {}

\* C30 -- Loading flag: whenever a trigger has set the loading flag of the
\* async node to true, the flag is eventually false again, also when the
\* debounced trigger is suppressed at fire time or superseded by a newer
\* trigger, provided that the handler's calls terminate.  A run that the
\* bounds of the model cut short counts in favour of the claim.
LoadingResets ==
  (LoadingFlag = Bool(TRUE)) ~> (LoadingFlag = Bool(FALSE) \/ Horizon)

\* ------------------------------------------------------- async result paths
\* The effect in flight whose promise the step settles.
Settled == CHOOSE flight \in runtime.inflight : flight \notin runtime'.inflight

\* C31 -- Async result paths: when the promise of a triggered async effect
\* settles, the loading path is false afterwards; if RunEffect yielded an
\* error result, the error is stored at the error path and the result path
\* keeps its value; if it succeeded, the effect's value (or the Ok result
\* that carries it) is stored at the result path and the error path is null.
AsyncOutcomeStored ==
  [][lastOp'.op = "settle" =>
       /\ GetValueByPath(runtime'.current, R_loading) = Bool(FALSE)
       /\ Settled.result.t # "ok" =>
            /\ GetValueByPath(runtime'.current, R_error) \notin {Null, Undef}
            /\ GetValueByPath(runtime'.current, R_results)
                 = GetValueByPath(runtime.current, R_results)
       /\ Settled.result.t = "ok" =>
            /\ GetValueByPath(runtime'.current, R_results)
                 \in {Settled.result.v, ResultValue(Settled.result)}
            /\ GetValueByPath(runtime'.current, R_error) = Null]_vars

\* ------------------------------------------------------- effects of actions
\* A runtime whose domain has the source data.count, the derived value
\* derived.double = data.count * 2 and one action, "run", with the effect
\* under test.
E_count == <<"data", "count">>
E_double == <<"derived", "double">>
E_flag == <<"state", "flag">>
E_seen == <<"state", "seen">>
Increment == SetValueEffect(E_count, Op2("+", Get(E_count), Lit(Num(1))))
XcLeaves ==
  {Increment,
   SetStateEffect(E_flag, Op2(">=", Get(E_count), Lit(Num(2)))),
   ConditionalEffect(Op2(">=", Get(E_count), Lit(Num(1))),
                     <<SetStateEffect(E_seen, Lit(Bool(TRUE)))>>),
   ApiCallEffect(Get(E_count)),
   SetValueEffect(E_double, Lit(Num(7))),
   SetStateEffect(E_double, Get(E_count))}
MaxSteps == 2          \* longest Sequence an action runs
XcEffects ==
  XcLeaves \cup {SequenceEffect(kids) : kids \in SeqsUpTo(XcLeaves, MaxSteps)}
XcDomain(effect) ==
  [sources |->
     <<[path |-> E_count,
        schema |-> [isObject |-> FALSE, hasMin |-> FALSE, min |-> 0]]>>,
   derived |->
     <<[path |-> E_double, deps |-> <<E_count>>,
        expr |-> Op2("*", Get(E_count), Lit(Num(2)))]>>,
   async |-> <<>>, invariants |-> <<>>,
   initialState |-> Obj("flag" :> Bool(FALSE)),
   actions |-> ("run" :> [preconditions |-> <<>>, effect |-> effect,
                          hasInput |-> FALSE,
                          input |-> [isObject |-> FALSE, hasMin |-> FALSE,
                                     min |-> 0]])]
XcGraph == BuildDependencyGraph(XcDomain(NoEffect))
XcEnv ==
  [graph |-> XcGraph, handler |-> NoHandler, now |-> clock,
   domain |-> XcDomain(call.effect), behaviour |-> <<>>]
XcWrites == ({E_count} \X {Num(0), Num(1)}) \cup {<<E_double, Num(9)>>}
XcOthers ==
  <<clock, call, ret, snapVars, evalVars, fxVars, graphVars, pgVars, parVars>>

XcInit ==
  /\ clock = 0
  /\ call \in [fn : {"execute"}, effect : XcEffects]
  /\ ret = NotReturned
  /\ runtime = CreateRuntime(XcDomain(call.effect), Obj("count" :> Num(0)), 0)
  /\ lastOp = [op |-> "create", path |-> <<>>, ok |-> TRUE, code |-> ""]
  /\ SnapIdle /\ EvalIdle /\ FxIdle /\ GraphIdle /\ PgIdle /\ ParIdle

\* runtime.set(path, value)
XcSet(path, value) ==
  /\ runtime.notified < MaxNotified
  /\ LET r == SetValue(BeginOp(runtime), XcEnv, XcEnv.domain, path, value)
     IN /\ runtime' = r.rt
        /\ lastOp' = [op |-> "set", path |-> path, ok |-> r.ok,
                      code |-> r.code]
  /\ UNCHANGED XcOthers

\* runtime.execute("run")
XcExecute ==
  /\ runtime.notified < MaxNotified
  /\ LET r == Execute(BeginOp(runtime), XcEnv, XcEnv.domain, "run", Undef)
     IN /\ runtime' = r.rt
        /\ lastOp' = [op |-> "execute", path |-> <<"run">>,
                      ok |-> r.result.t = "ok", code |-> r.result.code]
  /\ UNCHANGED XcOthers

XcNext == (\E w \in XcWrites : XcSet(w[1], w[2])) \/ XcExecute
SpecExecute == XcInit /\ [][XcNext]_vars

\* The handler calls of a Sequence each of whose children is evaluated
\* against the snapshot that holds the writes of the children before it.
IsWrite(c) == c.m \in {"setValue", "setState"}
RECURSIVE Written(_, _, _)
Written(snapshot, calls, now) ==
  IF calls = <<>> THEN snapshot
  ELSE Written(IF IsWrite(Head(calls))
               THEN SetValueByPath(snapshot, Head(calls).path, Head(calls).v,
                                   now)
               ELSE snapshot,
               Tail(calls), now)
RECURSIVE ObservingCalls(_, _, _)
ObservingCalls(snapshot, kids, now) ==
  IF kids = <<>> THEN <<>>
  ELSE LET r == RunEffect(Head(kids),
                          [handler |-> NoHandler,
                           context |-> CreateEvaluationContext(snapshot),
                           now |-> now])
       IN IF r.result.t # "ok" THEN r.calls
          ELSE r.calls \o ObservingCalls(Written(snapshot, r.calls, now),
                                         Tail(kids), now)

\* C32 -- Evaluation before execution: when execute runs a Sequence, the
\* value, condition and endpoint expressions of each child are evaluated
\* against the snapshot current when that child runs, so a later child
\* observes the writes of the earlier ones: the handler calls are those of
\* children run one after the other on the written snapshot, and two
\* consecutive SetValue data.count = data.count + 1 raise data.count by 2.
SequenceObservesWrites ==
  [][(lastOp'.op = "execute" /\ call.effect.tag = "Sequence") =>
       /\ runtime'.effectCalls
            = ObservingCalls(runtime.current, call.effect.kids, clock)
       /\ call.effect.kids = <<Increment, Increment>> =>
            GetValueByPath(runtime'.current, E_count).n
              = GetValueByPath(runtime.current, E_count).n + 2 * Scale]_vars

\* C33 -- Derived is read-only for effects: no SetValue or SetState effect
\* run through execute reaches the handler with a path of the derived
\* namespace (such an effect is rejected before any handler call), and
\* after every set and execute derived.double holds the value of its
\* expression, so derived values change only through propagation.
DerivedOnlyByPropagation ==
  /\ \A i \in DOMAIN runtime.effectCalls :
       IsWrite(runtime.effectCalls[i])
         => Head(runtime.effectCalls[i].path) # "derived"
  /\ GetValueByPath(runtime.current, E_double)
       = Evaluate(XcEnv.domain.derived[1].expr,
                  CreateEvaluationContext(runtime.current), clock)

\* -------------------------------------------------------- initial propagation
\* createRuntime on initial data whose data.q makes the condition of
\* async.search false (0) or true (4, 5), followed by the operations of the
\* runtime.
InitialQueries == {Num(0), Num(4), Num(5)}
CrInit ==
  /\ clock = 0
  /\ call \in {[fn |-> "createRuntime", guarded |-> g, q |-> q] :
                 g \in BOOLEAN, q \in InitialQueries}
  /\ ret = NotReturned
  /\ runtime = CreateRuntime(LdDomain(call.guarded),
                             Obj(("price" :> Num(100)) @@ ("q" :> call.q)), 0)
  /\ lastOp = [op |-> "create", path |-> <<>>, ok |-> TRUE, code |-> ""]
  /\ SnapIdle /\ EvalIdle /\ FxIdle /\ GraphIdle /\ PgIdle /\ ParIdle
SpecCreate == CrInit /\ [][LdNext]_vars

\* C34 -- Initial propagation: before the first external set that is
\* applied, no effect has been executed and no handler method called, no
\* debounce timer is pending and the loading flag is not true, also when
\* the condition of the async node holds on the initial state.
NoTriggerAtCreation ==
  runtime.notified = 0 =>
    /\ runtime.executions = 0 /\ runtime.apiCalls = 0
    /\ runtime.inflight = {}
    /\ runtime.timers = {} /\ runtime.pendingTimers = <<>>
    /\ LoadingFlag # Bool(TRUE)

\* --------------------------------------------------------- cycle detection
\* The elements of a Set of paths in the order a loop visits them: the
\* nodes in the order of the nodes Map, paths that are no nodes last.
Visiting(g, paths) ==
  SelectSeq(g.order, LAMBDA p : p \in paths)
    \o SelectSeq(<<P_missing>>, LAMBDA p : p \in paths /\ p \notin DOMAIN g.kind)

\* HasCycle: depth-first search with a visited set and a recursion stack.
\* st = [found, visited, recursionStack]; DFS(path) is Descend on the
\* dependencies of path, then steps d and e.
RECURSIVE Descend(_, _, _)
\* A search that leaves the finished paths on the recursion stack.
DFS_KeepStack(st, path, g) ==
  Descend([st EXCEPT !.visited = @ \cup {path},
                     !.recursionStack = @ \cup {path}],
          Visiting(g, GetOrEmpty(g.dependencies, path)), g)
DFS(st, path, g) ==
  LET r == Descend([st EXCEPT !.visited = @ \cup {path},
                              !.recursionStack = @ \cup {path}],
                   Visiting(g, GetOrEmpty(g.dependencies, path)), g)
  IN IF r.found THEN r
     ELSE [r EXCEPT !.recursionStack = @ \ {path}]
Descend(st, deps, g) ==
  IF deps = <<>> \/ st.found THEN st
  ELSE IF Head(deps) \notin st.visited
       THEN Descend(DFS(st, Head(deps), g), Tail(deps), g)
  ELSE IF Head(deps) \in st.recursionStack
       THEN [st EXCEPT !.found = TRUE]
  ELSE Descend(st, Tail(deps), g)
RECURSIVE HasCycleFrom(_, _, _)
HasCycleFrom(st, nodes, g) ==
  IF st.found THEN TRUE
  ELSE IF nodes = <<>> THEN FALSE
  ELSE IF Head(nodes) \in st.visited THEN HasCycleFrom(st, Tail(nodes), g)
  ELSE HasCycleFrom(DFS(st, Head(nodes), g), Tail(nodes), g)
HasCycle(g) ==
  HasCycleFrom([found |-> FALSE, visited |-> {}, recursionStack |-> {}],
               g.order, g)

\* FindCyclicDependencies: the same search per unvisited node, with the
\* path walked so far; a search that finds a cycle records it and returns
\* at once, so the paths it was in stay on the recursion stack.
\* st = [found, visited, recursionStack, cycle].
IndexOf(stack, p) ==
  IF \E i \in DOMAIN stack : stack[i] = p
  THEN CHOOSE i \in DOMAIN stack :
         stack[i] = p /\ \A j \in 1..(i - 1) : stack[j] # p
  ELSE Len(stack)
RECURSIVE WalkDeps(_, _, _, _)
WalkFrom(st, node, pathStack, g) ==
  LET r == WalkDeps([st EXCEPT !.visited = @ \cup {node},
                               !.recursionStack = @ \cup {node}],
                    Visiting(g, GetOrEmpty(g.dependencies, node)),
                    pathStack, g)
  IN IF r.found THEN r
     ELSE [r EXCEPT !.recursionStack = @ \ {node}]
WalkDeps(st, deps, pathStack, g) ==
  IF deps = <<>> \/ st.found THEN st
  ELSE IF Head(deps) \notin st.visited
       THEN WalkDeps(WalkFrom(st, Head(deps), Append(pathStack, Head(deps)),
                              g),
                     Tail(deps), pathStack, g)
  ELSE IF Head(deps) \in st.recursionStack
       THEN [st EXCEPT
               !.found = TRUE,
               !.cycle = Append(SubSeq(pathStack,
                                       IndexOf(pathStack, Head(deps)),
                                       Len(pathStack)),
                                Head(deps))]
  ELSE WalkDeps(st, Tail(deps), pathStack, g)
RECURSIVE FindCycles(_, _, _, _)
FindCycles(st, nodes, issues, g) ==
  IF nodes = <<>> THEN issues
  ELSE IF Head(nodes) \in st.visited
       THEN FindCycles(st, Tail(nodes), issues, g)
  ELSE LET r == WalkFrom([st EXCEPT !.found = FALSE], Head(nodes),
                         <<Head(nodes)>>, g)
       IN FindCycles(r, Tail(nodes),
                     IF r.found
                     THEN Append(issues, [code |-> "CYCLIC_DEPENDENCY",
                                          path |-> r.cycle,
                                          severity |-> "error"])
                     ELSE issues,
                     g)
FindCyclicDependencies(domain) ==
  FindCycles([found |-> FALSE, visited |-> {}, recursionStack |-> {},
              cycle |-> <<>>],
             BuildDependencyGraph(domain).order, <<>>,
             BuildDependencyGraph(domain))

\* Domains with the source data.x and the derived paths a, b and c, each
\* with any set of declared dependencies; a may also depend on data.missing,
\* which is no node.  The graph is sorted, searched for cycles by HasCycle
\* and by FindCyclicDependencies, and asked for an affected order.
OrdPaths == <<P_src, P_a, P_b, P_c, P_missing>>
OrdDomain(da, db, dc) ==
  [GraphDomain(da, db, dc) EXCEPT
     !.derived[1].deps = SelectSeq(OrdPaths, LAMBDA p : p \in da)]
OrdChanges == {<<P_src>>, <<P_a>>, <<P_c, P_b>>}
OrdGraph == BuildDependencyGraph(call.domain)
OrdOthers ==
  <<clock, call, snapVars, evalVars, fxVars, graphVars, rtVars, pgVars,
    parVars>>

OrdInit ==
  /\ clock = 0
  /\ \E da \in SUBSET SeqToSet(OrdPaths), db \in GraphDepChoices,
        dc \in GraphDepChoices :
       call = [fn |-> "BuildDependencyGraph", domain |-> OrdDomain(da, db, dc)]
  /\ ret = NotReturned
  /\ SnapIdle /\ EvalIdle /\ FxIdle /\ GraphIdle /\ RtIdle /\ PgIdle
  /\ ParIdle

\* TopologicalSort(nodes, dependencies) returns
Sort ==
  /\ ret.pc = "idle"
  /\ ret' = [pc |-> "sorted", nodes |-> DOMAIN OrdGraph.kind,
             topologicalOrder |-> OrdGraph.topologicalOrder]
  /\ UNCHANGED OrdOthers
\* HasCycle(graph) returns
Detect ==
  /\ ret.pc = "sorted"
  /\ ret' = [pc |-> "detected", nodes |-> ret.nodes,
             topologicalOrder |-> ret.topologicalOrder,
             hasCycle |-> HasCycle(OrdGraph)]
  /\ UNCHANGED OrdOthers
\* FindCyclicDependencies(domain) returns
Validate ==
  /\ ret.pc = "detected"
  /\ ret' = [pc |-> "validated", nodes |-> ret.nodes,
             topologicalOrder |-> ret.topologicalOrder,
             hasCycle |-> ret.hasCycle,
             issues |-> FindCyclicDependencies(call.domain)]
  /\ UNCHANGED OrdOthers
\* GetAffectedOrder(graph, changedPaths) returns
Affected ==
  /\ ret.pc = "validated"
  /\ \E changedPaths \in OrdChanges :
       ret' = [pc |-> "affected", nodes |-> ret.nodes,
               topologicalOrder |-> ret.topologicalOrder,
               hasCycle |-> ret.hasCycle, issues |-> ret.issues,
               changedPaths |-> changedPaths,
               order |-> GetAffectedOrder(OrdGraph, changedPaths)]
  /\ UNCHANGED OrdOthers
OrdNext == Sort \/ Detect \/ Validate \/ Affected
SpecOrder == OrdInit /\ [][OrdNext]_vars

\* The dependencies of a node that are nodes themselves.
NodeDeps(p) == DeclaredDeps(call.domain, p) \cap ret.nodes
IsSubsequence(sub, order) ==
  sub = SelectSeq(order, LAMBDA p : p \in SeqToSet(sub))

\* C35 -- Topological order: for a domain whose dependency edges contain
\* no cycle, TopologicalSort returns every node exactly once, each node
\* after all the nodes it depends on (a dependency that is no node is
\* ignored), and GetAffectedOrder returns a subsequence of that order.
OrderIsTopological ==
  (ret.pc # "idle" /\ ~HasDependencyCycle(call.domain)) =>
    /\ SeqToSet(ret.topologicalOrder) = ret.nodes
    /\ Len(ret.topologicalOrder) = Cardinality(ret.nodes)
    /\ \A i \in DOMAIN ret.topologicalOrder :
         \A d \in NodeDeps(ret.topologicalOrder[i]) :
           \E j \in 1..(i - 1) : ret.topologicalOrder[j] = d
    /\ ret.pc = "affected" => IsSubsequence(ret.order, ret.topologicalOrder)

\* a depends on c and on data.missing, b on a: the order places c before a
\* and a before b, and a change of a affects a and b only.
OrderIsTopologicalWitness ==
  /\ ret.pc = "affected"
  /\ ~HasDependencyCycle(call.domain)
  /\ SeqToSet(call.domain.derived[1].deps) = {P_c, P_missing}
  /\ ret.topologicalOrder = <<P_src, P_c, P_a, P_b>>
  /\ ret.changedPaths = <<P_a>>
  /\ ret.order = <<P_a, P_b>>

\* C36 -- The cycle detections agree: HasCycle returns true exactly when
\* the topological order omits a node, and exactly when
\* FindCyclicDependencies reports an issue (each of them a
\* CYCLIC_DEPENDENCY error).
DetectionsAgree ==
  ret.pc \in {"validated", "affected"} =>
    /\ ret.hasCycle <=> Len(ret.topologicalOrder) < Cardinality(ret.nodes)
    /\ ret.hasCycle <=> ret.issues # <<>>
    /\ \A i \in DOMAIN ret.issues : ret.issues[i].code = "CYCLIC_DEPENDENCY"

\* A cycle between a and b next to the diamond of c: all three detect it,
\* and the order still holds the nodes outside the cycle.
DetectionsAgreeWitness ==
  /\ ret.pc = "validated"
  /\ ret.hasCycle
  /\ ret.issues # <<>>
  /\ ret.topologicalOrder = <<P_src, P_c>>
  /\ P_b \in SeqToSet(call.domain.derived[1].deps)

\* A diamond without a cycle: b and c both depend on a, which depends on
\* the source; none of the three detects a cycle.
DetectionsAgreeOnDiamond ==
  /\ ret.pc = "validated"
  /\ ~ret.hasCycle /\ ret.issues = <<>>
  /\ P_a \in SeqToSet(call.domain.derived[3].deps)
  /\ P_src \in SeqToSet(call.domain.derived[1].deps)

\* ---------------------------------------------------------------------
\* explain(path) with cycle prevention.  visited is one Set shared by the
\* whole recursion: a path is added on entry and never removed.
\* st = [visited, tree]; the dependencies are mapped in order, each call
\* seeing the paths the calls before it added.
MaxDepth == 10
GetDirectDependencies(g, path) == Visiting(g, GetOrEmpty(g.dependencies, path))
Leaf(path, kind, snapshot) ==
  [path |-> path, value |-> GetValueByPath(snapshot, path), kind |-> kind,
   dependencies |-> <<>>]

RECURSIVE ExplainDependencies(_, _, _, _, _)
ExplainWithCyclePrevention(visited, path, maxDepth, g, snapshot) ==
  IF maxDepth <= 0
  THEN [visited |-> visited, tree |-> Leaf(path, "truncated", snapshot)]
  ELSE IF path \in visited
  THEN [visited |-> visited, tree |-> Leaf(path, "cycle", snapshot)]
  ELSE IF path \notin DOMAIN g.kind
  THEN [visited |-> visited \cup {path}, tree |-> Null]
  ELSE LET below == ExplainDependencies(
                      [visited |-> visited \cup {path}, trees |-> <<>>],
                      GetDirectDependencies(g, path), maxDepth - 1, g,
                      snapshot)
       IN [visited |-> below.visited,
           tree |-> [Leaf(path, g.kind[path], snapshot) EXCEPT
                       !.dependencies =
                          SelectSeq(below.trees, LAMBDA d : d # Null)]]
ExplainDependencies(st, deps, maxDepth, g, snapshot) ==
  IF deps = <<>> THEN st
  ELSE LET one == ExplainWithCyclePrevention(st.visited, Head(deps),
                                             maxDepth, g, snapshot)
       IN ExplainDependencies(
            [visited |-> one.visited, trees |-> Append(st.trees, one.tree)],
            Tail(deps), maxDepth, g, snapshot)

RECURSIVE HasKind(_, _)
HasKind(tree, kind) ==
  \/ tree.kind = kind
  \/ \E i \in DOMAIN tree.dependencies : HasKind(tree.dependencies[i], kind)

ExplainDepths == {2, MaxDepth}
ExplainSnapshot == CreateSnapshot(Obj("x" :> Num(1)), EmptyObj, 0)
\* explain(path) returns
Explain ==
  /\ ret.pc = "idle"
  /\ \E path \in SeqToSet(OrdPaths), maxDepth \in ExplainDepths :
       ret' = [pc |-> "explained", path |-> path, maxDepth |-> maxDepth,
               tree |-> ExplainWithCyclePrevention(
                          {}, path, maxDepth, OrdGraph, ExplainSnapshot).tree]
  /\ UNCHANGED OrdOthers
ExplainNext == Explain
SpecExplain == OrdInit /\ [][ExplainNext]_vars

\* C37 -- explain(path) with cycle prevention returns for every dependency
\* graph, and its tree holds a dependency of kind 'cycle' only when the
\* declared dependencies contain a cycle: in a graph without one (a
\* diamond included) every node is explained with its real kind.
CycleKindOnlyForCycles ==
  (ret.pc = "explained" /\ ret.tree # Null /\ HasKind(ret.tree, "cycle")) =>
    HasDependencyCycle(call.domain)

\* ---------------------------------------------------------------------
\* Event channels.  Two listeners subscribe to and unsubscribe from the
\* channel "saved" and the catch-all channel '*', and events are emitted
\* on either channel.
F_any == <<"*">>
EmChannels == {F_saved, F_any}
EmListeners == {"e1", "e2"}
EmEnv ==
  [graph |-> RtGraph, handler |-> NoHandler, now |-> clock,
   domain |-> FcDomain, behaviour |-> [l \in EmListeners |-> Quiet]]
EmInit ==
  /\ clock = 0
  /\ runtime = CreateRuntime(FcDomain, RtInitialData, 0)
  /\ lastOp = [op |-> "create", path |-> <<>>, ok |-> TRUE, code |-> ""]
  /\ SnapIdle /\ EvalIdle /\ FxIdle /\ GraphIdle /\ PgIdle /\ ParIdle /\ FnIdle

\* runtime.subscribeEvents(channel, listener)
EmSubscribe(channel, listener) ==
  /\ runtime' = SubscribeEvents(BeginOp(runtime), channel, listener)
  /\ lastOp' = [op |-> "subscribe", path |-> channel, ok |-> TRUE, code |-> ""]
  /\ UNCHANGED FcOthers
\* The unsubscribe function subscribeEvents returned is called.
EmUnsubscribe(channel, listener) ==
  /\ listener \in SeqToSet(ListenersOf(runtime.eventListeners, channel))
  /\ runtime' = [Unsubscribe(BeginOp(runtime),
                             Subscription("event", channel, listener))
                   EXCEPT !.gone = {}]
  /\ lastOp' = [op |-> "unsubscribe", path |-> channel, ok |-> TRUE,
                code |-> ""]
  /\ UNCHANGED FcOthers
\* EmitEvent(channel, payload)
EmEmit(channel) ==
  /\ runtime' = EmitEvent(BeginOp(runtime), EmEnv, channel, Str("ok"))
  /\ lastOp' = [op |-> "emit", path |-> channel, ok |-> TRUE, code |-> ""]
  /\ UNCHANGED FcOthers
EmNext ==
  \/ \E channel \in EmChannels, listener \in EmListeners :
       EmSubscribe(channel, listener)
  \/ \E channel \in EmChannels, listener \in EmListeners :
       EmUnsubscribe(channel, listener)
  \/ \E channel \in EmChannels : EmEmit(channel)
SpecEmit == EmInit /\ [][EmNext]_vars

Invocations(listener) ==
  Cardinality({i \in DOMAIN runtime.log : runtime.log[i].listener = listener})
ListensTo(listener, channel) ==
  listener \in SeqToSet(ListenersOf(runtime.eventListeners, channel))

\* C40 -- One emitted event invokes every registered event listener at most
\* once, and every listener of the event's channel or of '*' exactly once,
\* also when the event is emitted on the channel '*' itself.
EachListenerOnce ==
  lastOp.op = "emit" =>
    \A listener \in EmListeners :
      /\ Invocations(listener) <= 1
      /\ (ListensTo(listener, lastOp.path) \/ ListensTo(listener, F_any)) =>
           Invocations(listener) = 1
\* The part that holds: a listener of one of the two collections is
\* invoked once per collection it is in, the channel's listeners first.
OncePerCollection ==
  lastOp.op = "emit" =>
    \A listener \in EmListeners :
      Invocations(listener) =
        (IF ListensTo(listener, lastOp.path) THEN 1 ELSE 0)
          + (IF ListensTo(listener, F_any) THEN 1 ELSE 0)

\* ---------------------------------------------------------------------
\* Catch with a finally branch.  try, catch and finally call different
\* handler methods (finally alone navigates), and the handler may throw
\* from any of them or reject an API call.
CtTries ==
  {SetValueEffect(P_x, Lit(Num(1))), ApiCallEffect(EP_a),
   SetValueEffect(P_x, Op1("bogus", Lit(Num(1))))}
CtCatches == {SetStateEffect(P_err, Lit(Str("failed"))), ApiCallEffect(EP_b)}
CtFinally == NavigateEffect(Lit(Str("/done")))
CtEffects == {CatchEffect(<<t, c, CtFinally>>) : t \in CtTries, c \in CtCatches}
CtHandlers ==
  {[rejects |-> r, throwing |-> t] :
     r \in SUBSET {EP_a.lit, EP_b.lit},
     t \in SUBSET {"setValue", "setState", "navigate"}}
CtInit ==
  /\ clock = 0
  /\ fxEffect \in CtEffects
  /\ fxHandler \in CtHandlers
  /\ fxOut = NotRun
  /\ SnapIdle /\ EvalIdle /\ GraphIdle /\ RtIdle /\ PgIdle /\ ParIdle /\ FnIdle
SpecCatch == CtInit /\ [][FxNext]_vars

FinallyRuns == {i \in DOMAIN fxOut.calls : fxOut.calls[i].m = "navigate"}

\* C39 -- In one run of a Catch with a finally branch, finally is executed
\* exactly once, whether try succeeds, try fails, catch fails or finally
\* itself fails, and after try and catch: its call is the last one.
FinallyExactlyOnce ==
  fxOut # NotRun => FinallyRuns = {Len(fxOut.calls)}
\* The part that holds: when nothing throws (try and catch end in Ok or in
\* an Err result), finally runs once, after try, and catch does not run.
FinallyOnceWithoutThrow ==
  (fxOut # NotRun /\ fxHandler.throwing = {} /\ ~IsThrown(Kid(1).result.v)
     /\ Kid(1).result.t # "throw") =>
    /\ FinallyRuns = {Len(fxOut.calls)}
    /\ fxOut.calls = Kid(1).calls \o Kid(3).calls

\* ---------------------------------------------------------------------
\* Termination of a Parallel.  Every handler call and delay terminates: a
\* pending child promise settles eventually, and a continuation that can
\* run does run.
SpecTerminates ==
  /\ ParInit /\ [][ParNext]_vars
  /\ WF_vars(ParStart) /\ WF_vars(ParSettle) /\ WF_vars(ParReturn)

\* C38 -- RunEffect terminates with a result for every effect tree when
\* all handler calls and delays terminate, a Parallel with an empty
\* effects list in both waitAll modes included.
RunEffectTerminates == <>(par.pc = "returned")
\* The part that holds: a Parallel that has a child, or that waits for
\* all, returns.
NonEmptyRaceTerminates ==
  (ParKids # <<>> \/ ParWaitAll) => <>(par.pc = "returned")
====
